---- MODULE Spec2Model ----
(***************************************************************************)
(* A model of flask-assets-pipeline: the inclusion queue, the reference   *)
(* parser and URL resolver, the tag renderer, the esbuild metafile         *)
(* converter, the mapping file and the live-reload broadcaster.            *)
(*                                                                         *)
(* Strings are sequences of tokens: a token is either a maximal run of     *)
(* word characters ("app", "woff2", "app-ABC") or one punctuation          *)
(* character (" ", ".", "#", "/", ":", "=", "&").  Python dicts are        *)
(* insertion-ordered: they are sequences of <<key, value>> pairs.          *)
(* A metadata value is <<"s", v>> for the string v, <<"l", v1, ...>> for  *)
(* a list of strings (what urllib.parse.parse_qs produces) and             *)
(* <<"b", "True">> or <<"b", "False">> for a boolean.                      *)
(***************************************************************************)
EXTENDS Integers, Sequences, FiniteSets, TLC

\* ------------------------------------------------------------------ bounds
MaxQueue == 3
MaxPaths == 2
MaxIncludes == 3
MaxRequests == 2
MaxFields == 2

\* ------------------------------------------------------- sequence helpers
Range(s) == {s[i] : i \in 1..Len(s)}

Reverse(s) == [i \in 1..Len(s) |-> s[Len(s) + 1 - i]]

Drop(s, n) == IF n >= Len(s) THEN <<>> ELSE SubSeq(s, n + 1, Len(s))

Take(s, n) == IF n >= Len(s) THEN s ELSE SubSeq(s, 1, n)

StartsWith(s, p) == Len(s) >= Len(p) /\ SubSeq(s, 1, Len(p)) = p

EndsWith(s, p) == Len(s) >= Len(p) /\ SubSeq(s, Len(s) - Len(p) + 1, Len(s)) = p

\* index of the first / last occurrence of token t in s, 0 when absent
FirstIndex(s, t) ==
    IF \E i \in 1..Len(s) : s[i] = t
    THEN CHOOSE i \in 1..Len(s) : s[i] = t /\ \A j \in 1..(i - 1) : s[j] # t
    ELSE 0

LastIndex(s, t) ==
    IF \E i \in 1..Len(s) : s[i] = t
    THEN CHOOSE i \in 1..Len(s) : s[i] = t /\ \A j \in (i + 1)..Len(s) : s[j] # t
    ELSE 0

\* str.split(t)[-1]
LastPiece(s, t) == Drop(s, LastIndex(s, t))

\* str.split(t): the pieces between the occurrences of t
RECURSIVE Split(_, _)
Split(s, t) ==
    IF FirstIndex(s, t) = 0 THEN <<s>>
    ELSE <<Take(s, FirstIndex(s, t) - 1)>> \o Split(Drop(s, FirstIndex(s, t)), t)

\* ----------------------------------------------------- ordered dictionaries
DictKeys(d) == [i \in 1..Len(d) |-> d[i][1]]

DictHas(d, k) == \E i \in 1..Len(d) : d[i][1] = k

DictGet(d, k) == d[CHOOSE i \in 1..Len(d) : d[i][1] = k][2]

\* d[k] = v: an existing key keeps its position and takes the new value
DictSet(d, k, v) ==
    IF DictHas(d, k)
    THEN [i \in 1..Len(d) |-> IF d[i][1] = k THEN <<k, v>> ELSE d[i]]
    ELSE Append(d, <<k, v>>)

\* d.setdefault(k, v)
DictSetDefault(d, k, v) == IF DictHas(d, k) THEN d ELSE Append(d, <<k, v>>)

\* d.update(e)
RECURSIVE DictUpdate(_, _)
DictUpdate(d, e) ==
    IF e = <<>> THEN d
    ELSE DictUpdate(DictSet(d, e[1][1], e[1][2]), Tail(e))

\* a metadata key is a token sequence; a string value v is <<"s">> \o v
Str(v) == <<"s">> \o v

Key(k) == <<k>>

\* ------------------------------------------------------------ token classes
\* tokens made of the characters a-z only
LowerWords == {"static", "import", "prefetch", "modulepreload", "preload", "as",
               "defer", "font", "style", "script", "image", "fetch", "app", "lib",
               "icon", "js", "css", "chunk", "base", "page", "modifier", "cdn",
               "dist", "assets", "https", "bin", "main", "crossorigin", "x"}

PRELOAD_AS_EXT_MAPPING ==
    << <<"css", "style">>, <<"js", "script">>, <<"png", "image">>, <<"jpg", "image">>,
       <<"jpeg", "image">>, <<"gif", "image">>, <<"webp", "image">>, <<"svg", "image">>,
       <<"woff", "font">>, <<"woff2", "font">>, <<"ttf", "font">>, <<"otf", "font">>,
       <<"mp4", "video">>, <<"webm", "video">>, <<"ogg", "video">>, <<"mp3", "audio">>,
       <<"wav", "audio">>, <<"flac", "audio">>, <<"aac", "audio">>, <<"json", "fetch">>,
       <<"html", "fetch">> >>

\* is_abs_url: re.match("([a-z]+:)?//", path)
is_abs_url(path) ==
    \/ StartsWith(path, <<"/", "/">>)
    \/ /\ Len(path) >= 4
       /\ path[1] \in LowerWords
       /\ SubSeq(path, 2, 4) = <<":", "/", "/">>

\* ------------------------------------------------------------------- state
VARIABLES
    debug,            \* app.debug
    assets_endpoint,  \* state.assets_endpoint: "static" or "assets"
    cdn_enabled,      \* state.cdn_enabled
    import_map,       \* state.import_map (non-empty or empty)
    include_arg,      \* the include argument of init_app: None, or a list
    include_inline_on_demand, \* state.include_inline_on_demand
    bundles,          \* state.bundles: ordered dict name -> entrypoint paths
    mapping,          \* state.mapping, read once by init_app
    mapping_file,     \* the mapping file on disk
    tailwind,         \* state.tailwind: the tailwind input file, <<>> when unset
    heap,             \* the Python lists that hold inclusion entries, by object id
    g,                \* flask.g of each request
    calls,            \* number of include() calls made so far
    ret,              \* what the last operation returned
    metafile,         \* the metafile that esbuild writes
    conv,             \* what the last metafile conversion did
    writer,           \* the process that is writing the mapping file
    obs,              \* what the last reader of the mapping file got
    subscribers,      \* Reloader.subscribers: a list of queue objects
    qlen,             \* the number of messages in each queue object
    pinger,           \* the position of each thread inside ping()
    dev               \* the dev command: its main thread, build processes and reader threads

\* ------------------------------------------------------- the mapping file
\* The file holds the first n of the `of` chunks that json.dump writes for m.
FileOf(m) == [exists |-> TRUE, m |-> m, n |-> Len(m) + 1, of |-> Len(m) + 1]

NoFile == [exists |-> FALSE, m |-> <<>>, n |-> 0, of |-> 0]

\* json.load on the file's current content: only a complete document parses
JsonDecodes(f) == f.exists /\ f.n = f.of

\* AssetsPipeline.read_mapping: any failure gives the empty mapping
read_mapping(f) == IF JsonDecodes(f) THEN f.m ELSE <<>>

\* ------------------------------------------------------------ the Outputs
Bare(u) == [url |-> u, meta |-> <<>>, pair |-> FALSE]

Pair(u, m) == [url |-> u, meta |-> m, pair |-> TRUE]

\* ------------------------------------------------------ reference parser
Modifiers == {"static", "import", "prefetch", "modulepreload"}

MatchEndNoSpace(f) ==
    IF Len(f) >= 2 /\ f[1] \in Modifiers THEN 2
    ELSE IF Len(f) >= 6 /\ f[1] = "preload" /\ f[2] = " " /\ f[3] = "as" /\ f[4] = " "
            /\ f[5] \in LowerWords /\ f[6] = " " THEN 6
    ELSE IF Len(f) >= 2 /\ f[1] = "preload" THEN 2
    ELSE 0

\* number of tokens matched by
\* re.compile("(static|import|prefetch|modulepreload|preload( as [a-z]+)?) ")
\* at the start of the string, 0 when there is no match
MatchEnd(f) ==
    IF Len(f) >= 2 /\ f[1] \in Modifiers /\ f[2] = " " THEN 2
    ELSE IF Len(f) >= 6 /\ f[1] = "preload" /\ f[2] = " " /\ f[3] = "as" /\ f[4] = " "
            /\ f[5] \in LowerWords /\ f[6] = " " THEN 6
    ELSE IF Len(f) >= 2 /\ f[1] = "preload" /\ f[2] = " " THEN 2
    ELSE 0

\* PRELOAD_AS_EXT_MAPPING.get(filename.split(".")[-1], "fetch")
PreloadAs(filename) ==
    LET ext == LastPiece(filename, ".")
    IN  IF Len(ext) = 1 /\ DictHas(PRELOAD_AS_EXT_MAPPING, ext[1])
        THEN DictGet(PRELOAD_AS_EXT_MAPPING, ext[1])
        ELSE "fetch"

\* the metadata set from the modifier prefix (url, lines 334-343)
ModifierMeta(f) ==
    IF MatchEnd(f) = 0 THEN <<>>
    ELSE IF MatchEnd(f) = 6
         THEN << <<Key("modifier"), Str(<<"preload">>)>>,
                 <<Key("content_type"), Str(<<f[5]>>)>> >>
    ELSE IF f[1] = "preload"
         THEN << <<Key("modifier"), Str(<<"preload">>)>>,
                 <<Key("content_type"), Str(<<PreloadAs(Drop(f, 2))>>)>> >>
    ELSE << <<Key("modifier"), Str(<<f[1]>>)>> >>

\* urllib.parse.unquote after replacing "+" by a space
Unquote(s) == [i \in 1..Len(s) |-> IF s[i] \in {"+", "%20"} THEN " " ELSE s[i]]

\* urllib.parse.parse_qs: pairs without "=" and pairs with an empty value are
\* skipped; every name maps to the list of its values
RECURSIVE QsPairs(_, _)
QsPairs(pieces, acc) ==
    IF pieces = <<>> THEN acc
    ELSE LET p == Head(pieces)
             i == FirstIndex(p, "=")
             k == Unquote(Take(p, i - 1))
             v == Unquote(Drop(p, i))
         IN  IF i = 0 \/ v = <<>> THEN QsPairs(Tail(pieces), acc)
             ELSE IF DictHas(acc, k)
                  THEN QsPairs(Tail(pieces), DictSet(acc, k, DictGet(acc, k) \o <<",">> \o v))
             ELSE QsPairs(Tail(pieces), DictSet(acc, k, <<"l">> \o v))

parse_qs(fragment) == QsPairs(Split(fragment, "&"), <<>>)

\* a pre-split reference (filename, modifier): a tuple, written as tokens
TupleRef(filename, modifier) == <<"(">> \o filename \o <<",", modifier, ")">>

\* isinstance(filename, (tuple, list)), line 329
IsTuple(f) == f # <<>> /\ f[1] = "("

\* filename, meta = filename, line 330
TupleFilename(f) == SubSeq(f, 2, Len(f) - 3)

TupleModifier(f) == f[Len(f) - 1]

\* the filename and the metadata before the fragment is split off: a tuple's
\* second item that is not a dict becomes {"modifier": meta}, lines 329-343
PrefixPath(f) == IF IsTuple(f) THEN TupleFilename(f) ELSE Drop(f, MatchEnd(f))

PrefixMeta(f) ==
    IF IsTuple(f) THEN << <<Key("modifier"), Str(<<TupleModifier(f)>>)>> >> ELSE ModifierMeta(f)

\* the (filename, meta) pair that url() computes from a reference
\* (lines 328-346)
ParsePath(f) ==
    LET rest == PrefixPath(f)
    IN  IF FirstIndex(rest, "#") = 0 THEN rest ELSE Take(rest, FirstIndex(rest, "#") - 1)

ParseMeta(f) ==
    LET rest == PrefixPath(f)
    IN  IF FirstIndex(rest, "#") = 0 THEN PrefixMeta(f)
        ELSE DictUpdate(PrefixMeta(f), parse_qs(Drop(rest, FirstIndex(rest, "#"))))

\* ------------------------------------------------------------ URL resolver
OutputUrl == <<"/", "static", "/", "dist">>

CdnHost == <<"/", "/", "cdn">>

\* werkzeug quotes the characters that cannot stand in a URL path
Quote(s) == [i \in 1..Len(s) |-> IF s[i] = " " THEN "%20" ELSE s[i]]

\* flask.url_for(endpoint, filename=...): the static route, or the assets
\* route that init_app adds under assets_url_path
url_for(endpoint, filename) ==
    IF endpoint = "static" THEN <<"/", "static", "/">> \o Quote(filename)
    ELSE <<"/", "static", "/", "assets", "/">> \o Quote(filename)

LookupOrNothing(m, filename) == IF DictHas(m, filename) THEN DictGet(m, filename) ELSE <<>>

\* mapping.get(filename, [filename])
Lookup(m, filename) == IF DictHas(m, filename) THEN DictGet(m, filename) ELSE <<Bare(filename)>>

ReferenceMetaWins(out, meta) ==
    LET url_meta == IF out.pair THEN DictUpdate(out.meta, meta) ELSE meta
    IN  IF is_abs_url(out.url)
        THEN DictSetDefault(url_meta, Key("crossorigin"), Str(<<"anonymous">>))
        ELSE url_meta

\* the final URL and the metadata of one Output (url, lines 350-364)
OutMeta(out, meta) ==
    LET url_meta == IF out.pair THEN DictUpdate(meta, out.meta) ELSE meta
    IN  IF is_abs_url(out.url)
        THEN DictSetDefault(url_meta, Key("crossorigin"), Str(<<"anonymous">>))
        ELSE url_meta

OutUrl(out, meta) ==
    LET url_meta == IF out.pair THEN DictUpdate(meta, out.meta) ELSE meta
        routed == IF out.url # <<>> /\ out.url[1] = "/" THEN out.url
                  ELSE url_for(IF DictHas(url_meta, Key("modifier"))
                                  /\ DictGet(url_meta, Key("modifier")) = Str(<<"static">>)
                               THEN "static" ELSE assets_endpoint, out.url)
    IN  IF is_abs_url(out.url) THEN out.url
        ELSE IF cdn_enabled THEN CdnHost \o routed ELSE routed

\* the loop of url(): urls[url] = url_meta for every Output, in order
RECURSIVE UrlLoop(_, _, _)
UrlLoop(outs, meta, urls) ==
    IF outs = <<>> THEN urls
    ELSE UrlLoop(Tail(outs), meta,
                 DictSet(urls, OutUrl(Head(outs), meta), OutMeta(Head(outs), meta)))

\* url(filename, with_meta=True, single=False) against the mapping m
url(f, m) == UrlLoop(Lookup(m, ParsePath(f)), ParseMeta(f), <<>>)

\* the loop of urls(): urls.update(dict(self.url(f, ...))) for every path
RECURSIVE UrlsLoop(_, _, _)
UrlsLoop(paths, m, urls) ==
    IF paths = <<>> THEN urls
    ELSE UrlsLoop(Tail(paths), m, DictUpdate(urls, url(Head(paths), m)))

\* --------------------------------------------------------- inclusion queue
\* list.sort: a stable insertion into ascending order of i[0]
RECURSIVE InsertAsc(_, _)
InsertAsc(sorted, e) ==
    IF sorted = <<>> THEN <<e>>
    ELSE IF sorted[Len(sorted)][1] <= e[1] THEN Append(sorted, e)
    ELSE Append(InsertAsc(Take(sorted, Len(sorted) - 1), e), sorted[Len(sorted)])

RECURSIVE SortAsc(_, _)
SortAsc(todo, sorted) ==
    IF todo = <<>> THEN sorted ELSE SortAsc(Tail(todo), InsertAsc(sorted, Head(todo)))

UnstableSortedDesc(includes) == Reverse(SortAsc(includes, <<>>))

\* sorted(includes, key=lambda i: i[0], reverse=True): CPython reverses the
\* list, sorts it stably in ascending order and reverses the result
SortedDesc(includes) == Reverse(SortAsc(Reverse(includes), <<>>))

\* paths = [i[1] for i in sorted(...)]
QueuePaths(includes) == [i \in 1..Len(includes) |-> SortedDesc(includes)[i][2]]

\* bundle_files(name, entrypoint_only=True)
bundle_files(name) ==
    [i \in 1..Len(DictGet(bundles, name)) |-> DictGet(bundles, name)[i].path]

RECURSIVE IncludeLiteral(_, _, _)
IncludeLiteral(path, priority, assets) ==
    IF path = <<>> THEN assets
    ELSE IncludeLiteral(Tail(path), priority, Append(assets, <<priority, Head(path)>>))

\* include(path, priority): the entries the loop adds to the target list
RECURSIVE IncludeLoop(_, _, _)
IncludeLoop(path, priority, assets) ==
    IF path = <<>> THEN assets
    ELSE IF DictHas(bundles, Head(path))
         THEN IncludeLoop(Tail(path), priority,
                  assets \o [i \in 1..Len(bundle_files(Head(path))) |->
                                <<priority, bundle_files(Head(path))[i]>>])
    ELSE IncludeLoop(Tail(path), priority, Append(assets, <<priority, Head(path)>>))

\* ------------------------------------------------------------ tag renderer
IsStr(meta, k, v) == DictHas(meta, Key(k)) /\ DictGet(meta, Key(k)) = Str(<<v>>)

\* Python truthiness of a metadata value
Truthy(v) == v \notin {Str(<<>>), <<"b", "False">>}

RECURSIVE SelectAttrs(_)
SelectAttrs(meta) ==
    IF meta = <<>> THEN <<>>
    ELSE IF Truthy(Head(meta)[2]) /\ Head(meta)[1] \notin {Key("modifier"), Key("content_type")}
         THEN <<Head(meta)>> \o SelectAttrs(Tail(meta))
    ELSE SelectAttrs(Tail(meta))

\* str(v) of a metadata value, as an f-string formats it
PyStr(v) ==
    IF v[1] = "s" THEN Tail(v)
    ELSE IF v[1] = "b" THEN <<v[2]>>
    ELSE <<"['">> \o [i \in 1..(Len(v) - 1) |-> IF v[i + 1] = "," THEN "', '" ELSE v[i + 1]]
             \o <<"']">>

\* f' {k}="{v}"'
FormatAttr(k, v) == <<" ">> \o k \o <<"=", "\"">> \o PyStr(v) \o <<"\"">>

\* "".join(...) over the selected items of the metadata, lines 390-394
RECURSIVE FormatAttrs(_)
FormatAttrs(sel) ==
    IF sel = <<>> THEN <<>>
    ELSE FormatAttr(Head(sel)[1], Head(sel)[2]) \o FormatAttrs(Tail(sel))

Tag(kind, href, as, attrs) == [kind |-> kind, href |-> href, as |-> as, attrs |-> attrs]

\* the if/elif chain of tags(), lines 395-408
TagOf(u, meta) ==
    IF IsStr(meta, "modifier", "prefetch") THEN Tag("prefetch", u, <<>>, FormatAttrs(SelectAttrs(meta)))
    ELSE IF IsStr(meta, "modifier", "preload")
         THEN IF DictHas(meta, Key("content_type"))
              THEN Tag("preload", u, DictGet(meta, Key("content_type")), FormatAttrs(SelectAttrs(meta)))
              ELSE Tag("KeyError", u, <<>>, <<>>)
    ELSE IF IsStr(meta, "modifier", "modulepreload")
         THEN Tag("modulepreload", u, <<>>, FormatAttrs(SelectAttrs(meta)))
    ELSE IF IsStr(meta, "modifier", "import") THEN Tag("module", u, <<>>, FormatAttrs(SelectAttrs(meta)))
    ELSE IF EndsWith(u, <<".", "css">>) \/ IsStr(meta, "content_type", "style")
         THEN Tag("stylesheet", u, <<>>, FormatAttrs(SelectAttrs(meta)))
    ELSE Tag("script", u, <<>>, FormatAttrs(SelectAttrs(meta)))

IsPreExceptModule(t) == t.kind \in {"prefetch", "preload"}

\* the list a tag is appended to: pre (hints) or tags
IsPre(t) == t.kind \in {"prefetch", "preload", "modulepreload"}

RECURSIVE TagsLoop(_, _, _)
TagsLoop(items, pre, tags) ==
    IF items = <<>> THEN pre \o tags
    ELSE LET t == TagOf(Head(items)[1], Head(items)[2])
         IN  IF t.kind = "KeyError" THEN <<t>>
             ELSE IF IsPre(t) THEN TagsLoop(Tail(items), Append(pre, t), tags)
             ELSE TagsLoop(Tail(items), pre, Append(tags, t))

\* tags(): the import map goes to `tags` first, the live-reload script last
tags(items) ==
    LET first == IF import_map THEN <<Tag("importmap", <<>>, <<>>, <<>>)>> ELSE <<>>
        body == TagsLoop(items, <<>>, first)
    IN  IF body # <<>> /\ body[1].kind = "KeyError" THEN body
        ELSE IF debug THEN Append(body, Tag("livereload", <<>>, <<>>, <<>>))
        ELSE body

\* ---------------------------------------------------------------- requests
Requests == 1..MaxRequests

Active(r) == g[r].status = "active"

\* has_request_context(): context 0 is code running outside of any request
Contexts == {0} \cup {r \in Requests : Active(r)}

\* g.include_assets if has_request_context() else self.state.include
TargetObj(c) == IF c = 0 THEN 0 ELSE g[c].include_assets

Queue(c) == heap[TargetObj(c)]

MappingUncached(c) == IF debug THEN read_mapping(mapping_file) ELSE mapping

\* resolve_asset_filename_to_url: the mapping a lookup in context c uses
MappingFor(c) ==
    IF c # 0 /\ g[c].has_map THEN g[c].assets_map
    ELSE IF debug THEN read_mapping(mapping_file)
    ELSE mapping

\* ... and what it leaves in g.assets_map
CacheMap(c) ==
    IF c = 0 THEN g
    ELSE [g EXCEPT ![c].has_map = TRUE, ![c].assets_map = MappingFor(c)]

NoRet == [op |-> "init", ctx |-> 0, args |-> <<>>, paths |-> <<>>, m |-> <<>>,
          outs |-> <<>>, items |-> <<>>, value |-> <<>>, filename |-> <<>>, meta |-> <<>>]

AliasedListId(r) == 0

\* list(state.include) makes a new list object: request r's own
NewListId(r) == r

\* ------------------------------------------------------------- sample data
AppJs == <<"app", ".", "js">>
AppCss == <<"app", ".", "css">>
LibJs == <<"lib", ".", "js">>
BaseJs == <<"base", ".", "js">>
PageJs == <<"page", ".", "js">>
IconFont == <<"icon", ".", "woff2">>
MainBundle == <<"main">>
Dist(name) == OutputUrl \o <<"/">> \o name

Import == << <<Key("modifier"), Str(<<"import">>)>> >>
ModulePreload == << <<Key("modifier"), Str(<<"modulepreload">>)>> >>

\* no mapping file content: the application was never built
EmptyMapping == <<>>

\* a mapping as the metafile converter writes it
BuiltMapping ==
    << <<AppJs, << Pair(Dist(<<"app-ABC", ".", "js">>), Import),
                   Bare(Dist(<<"app-ABC", ".", "css">>)),
                   Pair(Dist(<<"chunk-XYZ", ".", "js">>), ModulePreload) >> >>,
       <<LibJs, << Pair(Dist(<<"lib-DEF", ".", "js">>), Import),
                   Pair(Dist(<<"chunk-XYZ", ".", "js">>), ModulePreload) >> >> >>

\* a mapping as the copy step of `build` writes it (cli.py, lines 233-238)
CopiedMapping ==
    << <<AppJs, << Pair(<<"app", "-", "1a2b", ".", "js">>, << <<Key("map_as"), Str(AppJs)>> >>) >> >>,
       <<AppCss, << Bare(<<"app", "-", "1a2b", ".", "css">>) >> >> >>

\* a mapping file written by hand or by another tool: JSON true and false
\* are the Python booleans
HandMapping ==
    << <<LibJs, << Pair(<<"/", "vendor", "/">> \o LibJs,
                        << <<Key("defer"), <<"b", "True">>>>,
                           <<Key("async"), <<"b", "False">>>>,
                           <<Key("integrity"), Str(<<"sha384-x">>)>> >>) >> >> >>

Mappings == {EmptyMapping, BuiltMapping, CopiedMapping, HandMapping}

Entry(p) == [path |-> p, outfile |-> <<>>]

\* the configurations init_app is run with
Configs ==
    { [debug |-> FALSE, assets_endpoint |-> "static", cdn_enabled |-> FALSE,
       import_map |-> FALSE, tailwind |-> <<>>,
       bundles |-> << <<MainBundle, <<Entry(AppJs), Entry(AppCss)>> >> >>,
       include |-> [given |-> FALSE, list |-> <<>>], include_inline_on_demand |-> FALSE],
      [debug |-> TRUE, assets_endpoint |-> "assets", cdn_enabled |-> FALSE,
       import_map |-> TRUE, tailwind |-> <<"main", ".", "css">>,
       bundles |-> << <<BaseJs, <<Entry(BaseJs)>> >>, <<PageJs, <<Entry(PageJs)>> >> >>,
       include |-> [given |-> TRUE, list |-> <<BaseJs>>], include_inline_on_demand |-> TRUE],
      [debug |-> FALSE, assets_endpoint |-> "static", cdn_enabled |-> TRUE,
       import_map |-> TRUE, tailwind |-> <<>>,
       bundles |-> << <<AppJs, <<Entry(AppJs), Entry(AppCss)>> >> >>,
       include |-> [given |-> TRUE, list |-> <<>>], include_inline_on_demand |-> FALSE] }

\* the references that include() is called with
QueueRefs ==
    { MainBundle, AppJs, LibJs,
      <<"prefetch", " ">> \o PageJs,
      <<"preload", " ", "as", " ", "font", " ">> \o IconFont }

\* the references that urls() is called with
PathRefs ==
    { AppJs, AppCss,
      <<"prefetch", " ">> \o AppJs,
      <<"static", " ">> \o AppJs,
      <<"preload", " ">> \o IconFont,
      <<"https", ":", "/", "/", "cdn", "/">> \o LibJs }

Priorities == {1, 3}

\* the lists of at most n elements of S
RECURSIVE Lists(_, _)
Lists(S, n) ==
    IF n = 0 THEN {<<>>}
    ELSE Lists(S, n - 1) \cup {Append(l, x) : l \in Lists(S, n - 1), x \in S}

\* the reference strings that url() is called with: a prefix, a path and a fragment
RefPrefixes ==
    { <<>>, <<"static", " ">>, <<"import", " ">>, <<"prefetch", " ">>, <<"modulepreload", " ">>,
      <<"preload", " ">>, <<"preload", " ", "as", " ", "font", " ">>,
      <<"preload", " ", "as", " ", "style", " ">>, <<"preload", " ", "as", " ">>,
      <<"defer", " ">>, <<"defer", " ", "import", " ">>, <<" ">> }

RefPaths ==
    { AppJs, AppCss, IconFont, <<"icon">>, <<"import", ".", "js">>,
      <<"https", ":", "/", "/", "cdn", "/">> \o LibJs }

QsFields ==
    { <<"modifier", "=", "prefetch">>, <<"content_type", "=", "style">>,
      <<"x", "=", "a", "+", "b">>, <<"x">> }

RECURSIVE JoinFields(_)
JoinFields(fields) ==
    IF fields = <<>> THEN <<>>
    ELSE IF Len(fields) = 1 THEN fields[1]
    ELSE fields[1] \o <<"&">> \o JoinFields(Tail(fields))

RefFragments == {<<>>} \cup {<<"#">> \o JoinFields(fs) : fs \in Lists(QsFields, MaxFields)}

References == {p \o f \o q : p \in RefPrefixes, f \in RefPaths, q \in RefFragments}

\* ------------------------------------------------------------------- Init
NewG == [r \in Requests |->
            [status |-> "new", include_assets |-> 0, has_map |-> FALSE, assets_map |-> <<>>]]

InitialIncludeAll(cfg) ==
    IncludeLoop(cfg.include.list, 1, IncludeLoop(DictKeys(cfg.bundles), 1, <<>>))

\* init_app, lines 191-194: self.bundle(bundles, include=include is None),
\* then self.include(include) when the list is not empty
InitialInclude(cfg) ==
    IncludeLoop(cfg.include.list, 1,
        IF cfg.bundles # <<>> /\ ~cfg.include.given
        THEN IncludeLoop(DictKeys(cfg.bundles), 1, <<>>)
        ELSE <<>>)

\* init_app, lines 180-194: read the mapping, register the bundles and
\* include them all (include is None), then include the include list
InitApp(cfg, m) ==
    /\ debug = cfg.debug
    /\ assets_endpoint = cfg.assets_endpoint
    /\ cdn_enabled = cfg.cdn_enabled
    /\ import_map = cfg.import_map
    /\ tailwind = cfg.tailwind
    /\ include_arg = cfg.include
    /\ include_inline_on_demand = cfg.include_inline_on_demand
    /\ bundles = cfg.bundles
    /\ mapping_file = FileOf(m)
    /\ mapping = read_mapping(mapping_file)
    /\ heap = [o \in 0..MaxRequests |-> IF o # 0 THEN <<>> ELSE InitialInclude(cfg)]
    /\ g = NewG
    /\ calls = 0
    /\ ret = NoRet

\* ---------------------------------------------------------------- actions
configVars ==
    <<debug, assets_endpoint, cdn_enabled, import_map, include_arg, include_inline_on_demand,
      tailwind, bundles, mapping>>

requestVars == <<heap, g, calls, ret>>

buildVars == <<metafile, conv, writer, obs>>

reloadVars == <<subscribers, qlen, pinger, dev>>

\* what the handling of a request leaves alone
appVars == <<configVars, mapping_file, buildVars, reloadVars>>

\* before_request, lines 214-218
BeforeRequest(r) ==
    /\ g[r].status = "new"
    /\ g' = [g EXCEPT ![r].status = "active", ![r].include_assets = NewListId(r)]
    /\ heap' = [heap EXCEPT ![NewListId(r)] =
                    IF tailwind = <<>> THEN heap[0]
                    ELSE IncludeLoop(<<OutputUrl \o <<"/">> \o tailwind>>, 1, heap[0])]
    /\ ret' = [NoRet EXCEPT !.op = "before_request", !.ctx = r]
    /\ UNCHANGED <<appVars, calls>>

\* the request is over: flask discards its g
EndRequest(r) ==
    /\ Active(r)
    /\ g' = [g EXCEPT ![r].status = "done"]
    /\ ret' = [NoRet EXCEPT !.op = "end_request", !.ctx = r]
    /\ UNCHANGED <<appVars, heap, calls>>

\* include(p, priority) called in context c, lines 305-313
Include(c, p, priority) ==
    /\ c \in Contexts
    /\ calls < MaxIncludes
    /\ Len(IncludeLoop(<<p>>, priority, Queue(c))) <= MaxQueue
    /\ heap' = [heap EXCEPT ![TargetObj(c)] = IncludeLoop(<<p>>, priority, Queue(c))]
    /\ calls' = calls + 1
    /\ ret' = [NoRet EXCEPT !.op = "include", !.ctx = c, !.args = <<p, priority>>]
    /\ UNCHANGED <<appVars, g>>

\* urls(with_meta=True) called in context c: the inclusion queue, lines 370-379
Urls(c) ==
    /\ c \in Contexts
    /\ g' = CacheMap(c)
    /\ ret' = [NoRet EXCEPT !.op = "urls", !.ctx = c,
                            !.paths = QueuePaths(Queue(c)),
                            !.m = MappingFor(c),
                            !.value = UrlsLoop(QueuePaths(Queue(c)), MappingFor(c), <<>>)]
    /\ UNCHANGED <<appVars, heap, calls>>

\* urls(paths, with_meta=True) called in context c with explicit paths
UrlsOf(c, paths) ==
    /\ c \in Contexts
    /\ g' = CacheMap(c)
    /\ ret' = [NoRet EXCEPT !.op = "urls_of", !.ctx = c, !.args = paths, !.paths = paths,
                            !.m = MappingFor(c),
                            !.outs = [i \in 1..Len(paths) |->
                                         Lookup(MappingFor(c), ParsePath(paths[i]))],
                            !.value = UrlsLoop(paths, MappingFor(c), <<>>)]
    /\ UNCHANGED <<appVars, heap, calls>>

\* url(f, with_meta=True, single=False) called in context c, lines 326-368
Url(c, f) ==
    /\ c \in Contexts
    /\ g' = CacheMap(c)
    /\ ret' = [NoRet EXCEPT !.op = "url", !.ctx = c, !.args = <<f>>,
                            !.filename = ParsePath(f),
                            !.meta = ParseMeta(f),
                            !.m = MappingFor(c),
                            !.outs = <<Lookup(MappingFor(c), ParsePath(f))>>,
                            !.value = url(f, MappingFor(c))]
    /\ UNCHANGED <<appVars, heap, calls>>

\* tags() called in context c, lines 381-411
Tags(c) ==
    /\ c \in Contexts
    /\ g' = CacheMap(c)
    /\ ret' = [NoRet EXCEPT !.op = "tags", !.ctx = c,
                            !.paths = QueuePaths(Queue(c)),
                            !.m = MappingFor(c),
                            !.items = UrlsLoop(QueuePaths(Queue(c)), MappingFor(c), <<>>),
                            !.value = tags(UrlsLoop(QueuePaths(Queue(c)), MappingFor(c), <<>>))]
    /\ UNCHANGED <<appVars, heap, calls>>

\* ------------------------------------------------------- metafile converter
MaxImports == 2

\* os.path.relpath(state.assets_folder) + "/" and os.path.relpath(state.output_folder)
InputRel == <<"assets", "/">>
OutputRel == <<"static", "/", "dist">>

\* os.path.abspath of a path relative to the working directory
abspath(path) == IF path # <<>> /\ path[1] = "/" THEN path ELSE <<"/", "srv", "/">> \o path

\* state.output_url + path[len(outputrel):]
Rewrite(path) == OutputUrl \o Drop(path, Len(OutputRel))

ImportOutputsAnyKind(imports) ==
    [i \in 1..Len(imports) |-> Pair(Rewrite(imports[i].path), ModulePreload)]

\* the loop over info["imports"], lines 568-575 (esbuild.py, lines 162-169)
RECURSIVE ImportOutputs(_)
ImportOutputs(imports) ==
    IF imports = <<>> THEN <<>>
    ELSE IF Head(imports).kind = "import-statement"
         THEN <<Pair(Rewrite(Head(imports).path), ModulePreload)>> \o ImportOutputs(Tail(imports))
    ELSE ImportOutputs(Tail(imports))

\* what one output record appends to its key, lines 562-575
\* (esbuild.py, lines 156-169)
RecordOutputs(output, info) ==
    LET u == Rewrite(output)
        o1 == IF EndsWith(u, <<".", "js">>) THEN <<Pair(u, Import)>> ELSE <<Bare(u)>>
        o2 == IF info.hasCss THEN Append(o1, Bare(Rewrite(info.cssBundle))) ELSE o1
    IN  o2 \o ImportOutputs(info.imports)

\* mapping.setdefault(key, []) followed by the appends
Extend(m, key, outs) ==
    IF DictHas(m, key) THEN DictSet(m, key, DictGet(m, key) \o outs) ELSE DictSet(m, key, outs)

\* the key of an entry point, lines 557-559
EntryKey(entryPoint) ==
    IF StartsWith(entryPoint, InputRel) THEN Drop(entryPoint, Len(InputRel))
    ELSE abspath(entryPoint)

\* AssetsPipeline.convert_esbuild_metafile: the mapping, lines 552-577
RECURSIVE ConvertLoop(_, _)
ConvertLoop(outputs, m) ==
    IF outputs = <<>> THEN m
    ELSE LET output == Head(outputs)[1]
             info == Head(outputs)[2]
         IN  IF ~info.hasEntry THEN ConvertLoop(Tail(outputs), m)
             ELSE ConvertLoop(Tail(outputs),
                      Extend(m, EntryKey(info.entryPoint), RecordOutputs(output, info)))

\* ... and the inputs, lines 546-550
ConvertInputs(inputs) == [i \in 1..Len(inputs) |-> EntryKey(inputs[i])]

convert_esbuild_metafile(doc) ==
    [inputs |-> ConvertInputs(doc.inputs), mapping |-> ConvertLoop(doc.outputs, <<>>)]

\* the declared entrypoints, flattened (bundle_files())
RECURSIVE AllEntries(_)
AllEntries(bs) == IF bs = <<>> THEN <<>> ELSE Head(bs)[2] \o AllEntries(Tail(bs))

\* Entrypoint.is_abs, Entrypoint.resolve_path(assets_folder)
EntryIsAbs(e) == e.path # <<>> /\ e.path[1] = "/"

resolve_path(e) == IF EntryIsAbs(e) THEN e.path ELSE abspath(InputRel \o e.path)

\* the index entrypoints[path] = entrypoint of convert_metafile, esbuild.py lines 136-139
Tracked(entryPoint) ==
    \E i \in 1..Len(AllEntries(bundles)) : resolve_path(AllEntries(bundles)[i]) = abspath(entryPoint)

TrackedEntry(entryPoint) ==
    LET es == AllEntries(bundles)
        \* a later entrypoint of the same resolved path replaces an earlier one
        i == CHOOSE i \in 1..Len(es) :
                 /\ resolve_path(es[i]) = abspath(entryPoint)
                 /\ \A j \in (i + 1)..Len(es) : resolve_path(es[j]) # abspath(entryPoint)
    IN  es[i]

\* EsbuildBuilder.convert_metafile, esbuild.py lines 144-171: <<inputs, mapping>>
RECURSIVE BuilderLoop(_, _, _)
BuilderLoop(outputs, inputs, m) ==
    IF outputs = <<>> THEN [inputs |-> inputs, mapping |-> m]
    ELSE LET output == Head(outputs)[1]
             info == Head(outputs)[2]
         IN  IF ~info.hasEntry \/ ~Tracked(info.entryPoint)
             THEN BuilderLoop(Tail(outputs), inputs, m)
             ELSE LET e == TrackedEntry(info.entryPoint)
                  IN  BuilderLoop(Tail(outputs),
                          IF EntryIsAbs(e) THEN inputs ELSE Append(inputs, e.path),
                          Extend(m, e.path, RecordOutputs(output, info)))

convert_metafile(doc) == BuilderLoop(doc.outputs, <<>>, <<>>)

\* the build-graph documents that esbuild writes
AppOut == OutputRel \o <<"/", "app-ABC", ".", "js">>
LibOut == OutputRel \o <<"/", "lib-DEF", ".", "js">>
CssOut == OutputRel \o <<"/", "app-ABC", ".", "css">>
ChunkOut == OutputRel \o <<"/", "chunk-XYZ", ".", "js">>
LazyOut == OutputRel \o <<"/", "lazy-UVW", ".", "js">>

ImportRefs == { [path |-> ChunkOut, kind |-> "import-statement"],
                [path |-> LazyOut, kind |-> "dynamic-import"] }

\* the output records: that of an internal chunk has no entryPoint; assets/app.js
\* is a declared entrypoint of the sample bundles, assets/lib.js is not
Infos ==
    { [hasEntry |-> e # <<>>, entryPoint |-> e, hasCss |-> c # <<>>, cssBundle |-> c, imports |-> i] :
        e \in {<<>>, InputRel \o AppJs, InputRel \o LibJs},
        c \in {<<>>, CssOut},
        i \in Lists(ImportRefs, MaxImports) }

Records == {AppOut, LibOut, CssOut} \X Infos

\* meta["outputs"] with one record or two; it is a JSON object: its keys are distinct
OutputTables ==
    {<<r>> : r \in Records}
        \cup {<<p[1], p[2]>> : p \in {pp \in Records \X Records : pp[1][1] # pp[2][1]}}

Doc(outputs) ==
    [valid |-> TRUE,
     inputs |-> <<InputRel \o AppJs, InputRel \o <<"util", ".", "js">>,
                  <<"node_modules", "/", "x", ".", "js">>>>,
     outputs |-> outputs]

\* a file that is not a JSON document: the bundler crashed or is still writing
BrokenDoc == [valid |-> FALSE, inputs |-> <<>>, outputs |-> <<>>]

NoConv == [op |-> "none", ok |-> TRUE, inputs |-> <<>>, mapping |-> <<>>]

\* json.load(f) raises JSONDecodeError on a broken document: the conversion
\* gives nothing; otherwise it gives what the converter returns
AppConversionLenient(doc) ==
    [op |-> "app", ok |-> TRUE,
     inputs |-> IF doc.valid THEN convert_esbuild_metafile(doc).inputs ELSE <<>>,
     mapping |-> IF doc.valid THEN convert_esbuild_metafile(doc).mapping ELSE <<>>]

AppConversion(doc) ==
    IF doc.valid
    THEN [op |-> "app", ok |-> TRUE, inputs |-> convert_esbuild_metafile(doc).inputs,
          mapping |-> convert_esbuild_metafile(doc).mapping]
    ELSE [op |-> "app", ok |-> FALSE, inputs |-> <<>>, mapping |-> <<>>]

BuilderConversion(doc) ==
    IF doc.valid
    THEN [op |-> "builder", ok |-> TRUE, inputs |-> convert_metafile(doc).inputs,
          mapping |-> convert_metafile(doc).mapping]
    ELSE [op |-> "builder", ok |-> FALSE, inputs |-> <<>>, mapping |-> <<>>]

\* AssetsPipeline.convert_esbuild_metafile(metafile)
ConvertApp ==
    /\ conv' = AppConversion(metafile)
    /\ UNCHANGED <<configVars, requestVars, mapping_file, metafile, writer, obs, reloadVars>>

\* EsbuildBuilder.convert_metafile(metafile)
ConvertBuilder ==
    /\ conv' = BuilderConversion(metafile)
    /\ UNCHANGED <<configVars, requestVars, mapping_file, metafile, writer, obs, reloadVars>>

\* ------------------------------------------------- writing the mapping file
IdleWriter == [pc |-> "idle", m |-> <<>>, prev |-> <<>>]

NoObs == [seen |-> FALSE, value |-> <<>>, prev |-> <<>>, next |-> <<>>]

FileDocs ==
    { Doc(<< <<AppOut, [hasEntry |-> TRUE, entryPoint |-> InputRel \o AppJs, hasCss |-> TRUE,
                        cssBundle |-> CssOut,
                        imports |-> <<[path |-> ChunkOut, kind |-> "import-statement"]>>]>> >>),
      Doc(<< <<LibOut, [hasEntry |-> TRUE, entryPoint |-> InputRel \o LibJs, hasCss |-> FALSE,
                        cssBundle |-> <<>>, imports |-> <<>>]>> >>),
      BrokenDoc }

\* open(out, "w") truncates the file; json.dump then writes it chunk by chunk
OpenForWrite(m) ==
    /\ mapping_file' = [exists |-> TRUE, m |-> m, n |-> 0, of |-> Len(m) + 1]
    /\ writer' = [pc |-> "writing", m |-> m, prev |-> read_mapping(mapping_file)]

\* _dump_mapping_file, cli.py lines 264-270: one more chunk reaches the file;
\* the with block closes the file after the last one
DumpWrite ==
    /\ writer.pc = "writing"
    /\ mapping_file' = [mapping_file EXCEPT !.n = @ + 1]
    /\ writer' = IF mapping_file.n + 1 = mapping_file.of THEN IdleWriter ELSE writer
    /\ UNCHANGED <<configVars, requestVars, metafile, conv, obs, reloadVars>>

\* esbuild (in watch mode) has rebuilt and rewritten its metafile
BundlerWrites(doc) ==
    /\ metafile' = doc
    /\ UNCHANGED <<configVars, requestVars, mapping_file, conv, writer, obs, reloadVars>>

\* on_esbuild_finished -> _convert_esbuild_metafile, cli.py lines 121-124 and
\* 253-261: a decode error returns False before the mapping file is opened
DevCallback ==
    /\ writer.pc = "idle"
    /\ conv' = [AppConversion(metafile) EXCEPT !.op = "dev"]
    /\ IF AppConversion(metafile).ok
       THEN OpenForWrite(AppConversion(metafile).mapping)
       ELSE UNCHANGED <<mapping_file, writer>>
    /\ UNCHANGED <<configVars, requestVars, metafile, obs, reloadVars>>

\* AssetsPipeline.write_mapping_file: the mapping file is replaced in one step
write_mapping_file(m) == FileOf(m)

\* EsbuildBuilder.dev_worker_callback -> write_mapping_from_metafile,
\* esbuild.py lines 33-36 and 173-181
BuilderCallback ==
    /\ writer.pc = "idle"
    /\ conv' = [BuilderConversion(metafile) EXCEPT !.op = "builder_dev"]
    /\ IF BuilderConversion(metafile).ok
       THEN mapping_file' = write_mapping_file(BuilderConversion(metafile).mapping)
       ELSE UNCHANGED mapping_file
    /\ UNCHANGED <<configVars, requestVars, metafile, writer, obs, reloadVars>>

\* the files of the assets folder, in os.walk order
AssetFiles == <<AppJs, AppCss, <<"util", ".", "js">>, <<"logo", ".", "png">>>>

\* copy_assets: base-hash.ext, with os.path.splitext
Stamp(f) ==
    IF LastIndex(f, ".") <= 1 THEN f \o <<"-", "1a2b">>
    ELSE Take(f, LastIndex(f, ".") - 1) \o <<"-", "1a2b">> \o Drop(f, LastIndex(f, ".") - 1)

\* copy_assets_to_static, lines 450-456: the files of the bundles (as strings)
\* and the tailwind file are ignored with the files the caller passes
IgnoreFiles(ignore_assets) ==
    Range(ignore_assets)
        \cup {AllEntries(bundles)[i].path : i \in {j \in 1..Len(AllEntries(bundles)) :
                                                     AllEntries(bundles)[j].outfile = <<>>}}
        \cup (IF tailwind = <<>> THEN {} ELSE {tailwind})

\* build, cli.py lines 233-238: mapping[src] = [dest] for every copied file
RECURSIVE CopyLoop(_, _, _)
CopyLoop(files, ignore, m) ==
    IF files = <<>> THEN m
    ELSE IF Head(files) \in ignore THEN CopyLoop(Tail(files), ignore, m)
    ELSE CopyLoop(Tail(files), ignore,
             DictSet(m, Head(files),
                 IF EndsWith(Stamp(Head(files)), <<".", "js">>)
                 THEN <<Pair(Stamp(Head(files)), << <<Key("map_as"), Str(Head(files))>> >>)>>
                 ELSE <<Bare(Stamp(Head(files)))>>))

\* build, cli.py lines 206-240: esbuild runs and writes the metafile; a decode
\* error of the conversion ends the command before _dump_mapping_file
BuildCommand(doc) ==
    /\ writer.pc = "idle"
    /\ bundles # <<>>
    /\ metafile' = doc
    /\ conv' = [AppConversion(doc) EXCEPT !.op = "build"]
    /\ IF AppConversion(doc).ok
       THEN OpenForWrite(CopyLoop(AssetFiles,
                                  IgnoreFiles(AppConversion(doc).inputs
                                      \o (IF tailwind = <<>> THEN <<>> ELSE <<tailwind>>)),
                                  AppConversion(doc).mapping))
       ELSE UNCHANGED <<mapping_file, writer>>
    /\ UNCHANGED <<configVars, requestVars, obs, reloadVars>>

\* read_mapping by another process or thread (init_app, or a lookup in debug
\* mode), with the mappings at both ends of the write in progress
ReadMapping ==
    /\ obs' = [seen |-> TRUE,
               value |-> read_mapping(mapping_file),
               prev |-> IF writer.pc = "writing" THEN writer.prev ELSE read_mapping(mapping_file),
               next |-> IF writer.pc = "writing" THEN writer.m ELSE read_mapping(mapping_file)]
    /\ UNCHANGED <<configVars, requestVars, mapping_file, metafile, conv, writer, reloadVars>>

\* ------------------------------------------------------------ live reload
MaxSubs == 2

\* queue.Queue(maxsize=5)
MaxSize == 5

Pingers == {1, 2}

IdlePinger == [pc |-> "idle", i |-> 0, start |-> <<>>, put |-> <<>>, full |-> <<>>]

RemoveAt(s, i) == [j \in 1..(Len(s) - 1) |-> IF j < i THEN s[j] ELSE s[j + 1]]

KeepAt(s, i) == s

\* except queue.Full: del subscribers[i]
OnFull(s, i) == RemoveAt(s, i)

\* Reloader.subscribe, lines 45-48
Subscribe ==
    /\ Len(qlen) < MaxSubs
    /\ qlen' = Append(qlen, 0)
    /\ subscribers' = Append(subscribers, Len(qlen) + 1)
    /\ UNCHANGED <<configVars, requestVars, mapping_file, buildVars, pinger, dev>>

\* the stream of a subscriber takes a message: sub.get()
Get(q) ==
    /\ q \in 1..Len(qlen)
    /\ qlen[q] > 0
    /\ qlen' = [qlen EXCEPT ![q] = @ - 1]
    /\ UNCHANGED <<configVars, requestVars, mapping_file, buildVars, subscribers, pinger, dev>>

\* ping, lines 50-54: reversed(range(len(subscribers))) is fixed here
PingStart(t) ==
    /\ pinger[t].pc \in {"idle", "done"}
    /\ pinger' = [pinger EXCEPT ![t] = [IdlePinger EXCEPT !.pc = "loop", !.i = Len(subscribers),
                                                          !.start = subscribers]]
    /\ UNCHANGED <<configVars, requestVars, mapping_file, buildVars, subscribers, qlen, dev>>

\* one iteration of the loop, lines 54-58
PingStep(t) ==
    /\ pinger[t].pc = "loop"
    /\ IF pinger[t].i = 0
       THEN /\ pinger' = [pinger EXCEPT ![t].pc = "done"]
            /\ UNCHANGED <<subscribers, qlen>>
       ELSE IF pinger[t].i > Len(subscribers)
       THEN \* subscribers[i] raises IndexError
            /\ pinger' = [pinger EXCEPT ![t].pc = "raised"]
            /\ UNCHANGED <<subscribers, qlen>>
       ELSE LET q == subscribers[pinger[t].i]
            IN  IF qlen[q] >= MaxSize
                THEN /\ subscribers' = OnFull(subscribers, pinger[t].i)
                     /\ pinger' = [pinger EXCEPT ![t].i = @ - 1, ![t].full = Append(@, q)]
                     /\ UNCHANGED qlen
                ELSE /\ qlen' = [qlen EXCEPT ![q] = @ + 1]
                     /\ pinger' = [pinger EXCEPT ![t].i = @ - 1, ![t].put = Append(@, q)]
                     /\ UNCHANGED subscribers
    /\ UNCHANGED <<configVars, requestVars, mapping_file, buildVars, dev>>

\* ------------------------------------------------------------------- specs
vars == <<debug, assets_endpoint, cdn_enabled, import_map, include_arg, include_inline_on_demand,
          tailwind, bundles, mapping,
          mapping_file, heap, g, calls, ret, metafile, conv, writer, obs,
          subscribers, qlen, pinger, dev>>

IdleBuild == metafile = BrokenDoc /\ conv = NoConv /\ writer = IdleWriter /\ obs = NoObs

\* the dev command is not running
IdleDev == [livereload |-> FALSE, main |-> "none", exit_event |-> FALSE, unlinked |-> FALSE,
            process |-> [w \in Pingers |-> "none"], pipe |-> [w \in Pingers |-> <<>>],
            thread |-> [w \in Pingers |-> "none"]]

IdleReload ==
    /\ subscribers = <<>> /\ qlen = <<>> /\ pinger = [t \in Pingers |-> IdlePinger]
    /\ dev = IdleDev

\* rendering one request
InitRender == (\E cfg \in Configs, m \in Mappings : InitApp(cfg, m)) /\ IdleBuild /\ IdleReload

RenderBefore == BeforeRequest(1)
RenderInclude == \E p \in QueueRefs, priority \in Priorities : Include(1, p, priority)
RenderUrls == Urls(1)
RenderTags == Tags(1)

NextRender == RenderBefore \/ RenderInclude \/ RenderUrls \/ RenderTags

SpecRender == InitRender /\ [][NextRender]_vars

\* resolving explicit references
ResolveBefore == BeforeRequest(1)
ResolveUrls ==
    /\ ret.op # "urls_of"
    /\ \E c \in {0, 1}, paths \in Lists(PathRefs, MaxPaths) : UrlsOf(c, paths)

\* the caller is done with the returned value
ResolveReturn ==
    /\ ret.op = "urls_of"
    /\ ret' = NoRet
    /\ UNCHANGED <<appVars, heap, g, calls>>

NextResolve == ResolveBefore \/ ResolveUrls \/ ResolveReturn

SpecResolve == InitRender /\ [][NextResolve]_vars

\* parsing and resolving one reference string
ParseUrl ==
    /\ ret.op # "url"
    /\ \E f \in References : Url(0, f)

ParseReturn ==
    /\ ret.op = "url"
    /\ ret' = NoRet
    /\ UNCHANGED <<appVars, heap, g, calls>>

NextParse == ParseUrl \/ ParseReturn

SpecParse == InitRender /\ [][NextParse]_vars

\* concurrent requests
QueueBefore == \E r \in Requests : BeforeRequest(r)
QueueInclude == \E c \in {0} \cup Requests, p \in {AppJs}, priority \in Priorities :
                    Include(c, p, priority)
QueueEnd == \E r \in Requests : EndRequest(r)

NextQueue == QueueBefore \/ QueueInclude \/ QueueEnd

\* the queues do not depend on the mapping: the application was never built
InitQueue == (\E cfg \in Configs : InitApp(cfg, EmptyMapping)) /\ IdleBuild /\ IdleReload

SpecQueue == InitQueue /\ [][NextQueue]_vars

\* converting metafiles
InitConvert ==
    /\ InitApp(CHOOSE cfg \in Configs : cfg.bundles # <<>> /\ ~cfg.debug /\ ~cfg.cdn_enabled,
               EmptyMapping)
    /\ \E t \in OutputTables : metafile = Doc(t)
    /\ conv = NoConv /\ writer = IdleWriter /\ obs = NoObs
    /\ IdleReload

NextConvert == ConvertApp \/ ConvertBuilder

SpecConvert == InitConvert /\ [][NextConvert]_vars

\* the mapping file between its writers and its readers
InitFile ==
    /\ \E cfg \in {c \in Configs : c.bundles # <<>> /\ ~c.cdn_enabled},
          m \in {EmptyMapping, BuiltMapping} :
           InitApp(cfg, m)
    /\ IdleBuild
    /\ IdleReload

FileBundler == \E doc \in FileDocs : BundlerWrites(doc)
FileBuild == \E doc \in FileDocs : BuildCommand(doc)

NextFile == FileBundler \/ DevCallback \/ BuilderCallback \/ FileBuild \/ DumpWrite \/ ReadMapping

SpecFile == InitFile /\ [][NextFile]_vars

\* one thread pinging the subscribers of the live-reload server
InitReload == InitApp(CHOOSE cfg \in Configs : cfg.debug, EmptyMapping) /\ IdleBuild /\ IdleReload

ReloadGet == \E q \in 1..MaxSubs : Get(q)
ReloadPingStart == PingStart(1)
ReloadPingStep == PingStep(1)

NextReload == Subscribe \/ ReloadGet \/ ReloadPingStart \/ ReloadPingStep

SpecReload == InitReload /\ [][NextReload]_vars

\* ------------------------------------------------------ bundle registration
MaxEntries == 3

\* os.path.join(a, b)
join(a, b) == IF b # <<>> /\ b[1] = "/" THEN b ELSE a \o <<"/">> \o b

\* format_bundle_file(filename, assets_folder=..., output_folder=...), lines 252-268:
\* a plain path is an entry without outfile
format_bundle_file(filename, assets_folder, output_folder) ==
    IF is_abs_url(filename) THEN Entry(filename)
    ELSE LET eq == FirstIndex(filename, "=")
             name == IF eq # 0 THEN Take(filename, eq - 1) ELSE filename
             given == IF eq # 0 THEN Drop(filename, eq) ELSE <<>>
             rel == assets_folder # <<>> /\ ~(name # <<>> /\ name[1] = "/")
             path == IF rel THEN abspath(join(assets_folder, name)) ELSE name
             outfile == IF rel /\ given = <<>> THEN name ELSE given
         IN  [path |-> path,
              outfile |-> IF output_folder # <<>>
                          THEN join(output_folder, IF outfile # <<>> THEN outfile ELSE name)
                          ELSE outfile]

\* bundle(assets, name): the dict of the bundles to register, lines 240-246
BundleDict(assets, name) ==
    IF name # <<>> THEN << <<name, assets>> >>
    ELSE DictUpdate(<<>>, [i \in 1..Len(assets) |-> <<assets[i], <<assets[i]>> >>])

\* ... and state.bundles after the registrations, lines 247-248
RECURSIVE Register(_, _, _, _)
Register(bs, dict, assets_folder, output_folder) ==
    IF dict = <<>> THEN bs
    ELSE Register(DictSet(bs, dict[1][1],
                      [i \in 1..Len(dict[1][2]) |->
                          format_bundle_file(dict[1][2][i], assets_folder, output_folder)]),
                  Tail(dict), assets_folder, output_folder)

\* include(names, priority) for names that are registered in bs, lines 308-311
RECURSIVE IncludeBundles(_, _, _, _)
IncludeBundles(bs, names, priority, assets) ==
    IF names = <<>> THEN assets
    ELSE IncludeBundles(bs, Tail(names), priority,
             assets \o [i \in 1..Len(DictGet(bs, Head(names))) |->
                           <<priority, DictGet(bs, Head(names))[i].path>>])

\* bundle(assets, name, include): state.bundles and the target list afterwards
bundle(st, assets, name, include) ==
    LET bs == Register(st.bundles, BundleDict(assets, name), <<>>, <<>>)
    IN  [bundles |-> bs,
         include |-> IF include
                     THEN IncludeBundles(bs, DictKeys(BundleDict(assets, name)), 1, st.include)
                     ELSE st.include]

\* ------------------------------------------------------------ inline assets
InlineScriptExtension == [tag |-> "script", fileext |-> "js"]
InlineStyleExtension == [tag |-> "style", fileext |-> "css"]

Namespaced == <<"@", "bp">>

\* the markup that open_tag_re matches, and its group(2)
OpenTags(ext) ==
    IF ext.tag = "script"
    THEN {"<script bundle>", "<script bundle=\"main\">", "<script bundle=\"@bp\">",
          "<script bundle=\"page.js\">"}
    ELSE {"<style bundle>"}

open_group(tag) ==
    CASE tag = "<script bundle=\"main\">" -> MainBundle
      [] tag = "<script bundle=\"@bp\">" -> Namespaced
      [] tag = "<script bundle=\"page.js\">" -> PageJs
      [] OTHER -> <<>>

CloseTag(ext) == IF ext.tag = "script" THEN "</script>" ELSE "</style>"

\* re.search: the index of the first match, 0 when there is none
Search(T, s) ==
    IF \E i \in 1..Len(s) : s[i] \in T
    THEN CHOOSE i \in 1..Len(s) : s[i] \in T /\ \A j \in 1..(i - 1) : s[j] \notin T
    ELSE 0

count_newlines(s) == Cardinality({i \in 1..Len(s) : s[i] = "\n"})

Token(lineno, type, value) == [lineno |-> lineno, type |-> type, value |-> value]

\* os.path.splitext(name)[0]
SplitextRoot(name) ==
    IF LastIndex(name, ".") > 1 THEN Take(name, LastIndex(name, ".") - 1) ELSE name

\* filter_stream, lines 89-109: the data token has an open tag without close tag
Unclosed(ext, token) ==
    /\ token.type = "data"
    /\ Search(OpenTags(ext), token.value) # 0
    /\ Search({CloseTag(ext)}, Drop(token.value, Search(OpenTags(ext), token.value))) = 0

\* filter_stream, lines 83-132: what one token of the stream adds to out
FilterToken(ext, name, token) ==
    IF token.type # "data" \/ Search(OpenTags(ext), token.value) = 0 THEN <<token>>
    ELSE LET open == Search(OpenTags(ext), token.value)
             preval == Take(token.value, open - 1)
             rest == Drop(token.value, open)
             close == Search({CloseTag(ext)}, rest)
             content == Take(rest, close - 1)
             lineno == token.lineno + count_newlines(preval)
             block_end_lineno == lineno + count_newlines(content)
         IN  (IF open > 1 THEN <<Token(token.lineno, "data", preval)>> ELSE <<>>)
             \o << Token(lineno, "block_begin", <<>>),
                   Token(lineno, "name", <<ext.tag>>),
                   Token(lineno, "const", open_group(token.value[open])),
                   Token(lineno, "const", SplitextRoot(name) \o <<".", ext.fileext>>),
                   Token(lineno, "block_end", <<>>),
                   Token(lineno, "data", content),
                   Token(block_end_lineno, "block_begin", <<>>),
                   Token(block_end_lineno, "name", <<"end" \o ext.tag>>),
                   Token(block_end_lineno, "block_end", <<>>) >>
             \o (IF close < Len(rest)
                 THEN <<Token(block_end_lineno, "data", Drop(rest, close))>>
                 ELSE <<>>)

RECURSIVE FilterLoop(_, _, _, _)
FilterLoop(ext, name, stream, out) ==
    IF stream = <<>> THEN [ok |-> TRUE, out |-> out]
    ELSE IF Unclosed(ext, Head(stream)) THEN [ok |-> FALSE, out |-> <<>>]
    ELSE FilterLoop(ext, name, Tail(stream), out \o FilterToken(ext, name, Head(stream)))

\* filter_stream(stream): ok is false when TemplateSyntaxError is raised
filter_stream(ext, name, stream) == FilterLoop(ext, name, stream, <<>>)

\* parse(), lines 136-149, for the block with these two const tokens
parse(st, attr, filename) ==
    IF attr # <<>> /\ DictHas(st.bundles, attr)
    THEN [st EXCEPT !.bundles = DictSet(st.bundles, attr,
                                    Append(DictGet(st.bundles, attr), Entry(filename)))]
    ELSE IF attr # <<>> /\ attr[1] = "@"
    THEN bundle(st, <<filename>>, attr, ~include_inline_on_demand)
    ELSE bundle(st, <<IF attr # <<>> THEN attr ELSE filename>>, <<>>, ~include_inline_on_demand)

\* the parser calls parse() at every block_begin that names an extension tag
RECURSIVE ParseBlocks(_, _)
ParseBlocks(st, out) ==
    IF Len(out) < 4 THEN st
    ELSE IF out[1].type = "block_begin" /\ out[2].type = "name"
            /\ out[2].value \in {<<InlineScriptExtension.tag>>, <<InlineStyleExtension.tag>>}
         THEN ParseBlocks(parse(st, out[3].value, out[4].value), Drop(out, 4))
    ELSE ParseBlocks(st, Tail(out))

\* the lexer's tokens for a template: the line of each token follows from the
\* newlines before it
RECURSIVE Lex(_, _)
Lex(pieces, lineno) ==
    IF pieces = <<>> THEN <<>>
    ELSE <<Token(lineno, pieces[1][1], pieces[1][2])>>
         \o Lex(Tail(pieces), lineno + count_newlines(pieces[1][2]))

IndexHtml == <<"index", ".", "html">>
PageHtml == <<"page", ".", "html">>

\* the templates of the application
Templates ==
    { [name |-> IndexHtml, stream |-> Lex(<< <<"data",
          <<"h", "\n", "<script bundle=\"main\">", "a", "\n", "</script>", "t">> >> >>, 1)],
      [name |-> PageHtml, stream |-> Lex(<< <<"data",
          <<"<script bundle>", "a", "</script>",
            "<script bundle=\"page.js\">", "b", "</script>">> >> >>, 1)],
      [name |-> PageHtml, stream |-> Lex(<<
          <<"data", <<"<script bundle=\"@bp\">", "a", "</script>">> >>,
          <<"variable_begin", <<>> >>, <<"name", <<"x">> >>, <<"variable_end", <<>> >>,
          <<"data", <<"\n", "<style bundle>", "b", "</style>">> >> >>, 1)],
      [name |-> IndexHtml, stream |-> Lex(<< <<"data", <<"h", "<script bundle>", "a">> >> >>, 1)] }

\* the extensions filter the stream one after the other
Filtered(tpl) ==
    LET script == filter_stream(InlineScriptExtension, tpl.name, tpl.stream)
    IN  IF ~script.ok THEN script
        ELSE filter_stream(InlineStyleExtension, tpl.name, script.out)

\* jinja_env.compile(source, tpl) outside of a request, as extract_from_templates
\* and TemplateCompilerHandler.on_modified run it
Compile(tpl) ==
    LET f == Filtered(tpl)
        st == IF f.ok THEN ParseBlocks([bundles |-> bundles, include |-> heap[0]], f.out)
              ELSE [bundles |-> bundles, include |-> heap[0]]
    IN  /\ Len(st.include) <= MaxQueue
        /\ \A i \in 1..Len(st.bundles) : Len(st.bundles[i][2]) <= MaxEntries
        /\ bundles' = st.bundles
        /\ heap' = [heap EXCEPT ![0] = st.include]
        /\ ret' = [NoRet EXCEPT !.op = IF f.ok THEN "compile" ELSE "TemplateSyntaxError",
                                !.args = tpl.name, !.items = tpl.stream, !.value = f.out]
        /\ UNCHANGED <<debug, assets_endpoint, cdn_enabled, import_map, include_arg,
                       include_inline_on_demand, tailwind, mapping, mapping_file,
                       buildVars, reloadVars, g, calls>>

\* assets.bundle(files, name) called by the application outside of a request
Bundle(assets, name) ==
    LET st == bundle([bundles |-> bundles, include |-> heap[0]], assets, name, FALSE)
    IN  /\ Len(st.bundles) <= MaxEntries
        /\ bundles' = st.bundles
        /\ ret' = [NoRet EXCEPT !.op = "bundle", !.args = name, !.paths = assets]
        /\ UNCHANGED <<debug, assets_endpoint, cdn_enabled, import_map, include_arg,
                       include_inline_on_demand, tailwind, mapping, mapping_file,
                       buildVars, reloadVars, heap, g, calls>>

\* the files the application registers: no file twice in one call
BundleArgs == {<<AppJs, AppCss>>, <<LibJs, <<"app", ".", "js", "=", "main", ".", "js">> >>}

InlineBundle == \E assets \in BundleArgs : Bundle(assets, MainBundle)
InlineCompile == \E tpl \in Templates : Compile(tpl)

NextInline == InlineBundle \/ InlineCompile

SpecInline == InitQueue /\ [][NextInline]_vars

\* a request that resolves references while the dev worker rewrites the file
SnapshotRefs == {AppJs, LibJs, <<"prefetch", " ">> \o AppJs}

InitSnapshot ==
    /\ \E cfg \in {c \in Configs : ~c.cdn_enabled}, m \in {EmptyMapping, BuiltMapping} :
           InitApp(cfg, m)
    /\ IdleBuild
    /\ IdleReload

SnapshotBefore == BeforeRequest(1)
SnapshotUrl == \E c \in {0, 1}, f \in SnapshotRefs : Url(c, f)
SnapshotEnd == EndRequest(1)
SnapshotBundler == \E doc \in FileDocs : BundlerWrites(doc)

NextSnapshot ==
    SnapshotBefore \/ SnapshotUrl \/ SnapshotEnd \/ SnapshotBundler \/ DevCallback \/ DumpWrite

SpecSnapshot == InitSnapshot /\ [][NextSnapshot]_vars

\* ------------------------------------------- the convert-esbuild-metafile command
\* open(out, "rw" if merge else "w"), cli.py line 267: Python's open() takes
\* exactly one of the modes r, w, x and a, and raises ValueError otherwise
ValidMode(mode) == Cardinality({i \in 1..Len(mode) : mode[i] \in {"r", "w", "x", "a"}}) = 1

OpenMode(merge) == IF merge THEN <<"r", "w">> ELSE <<"w">>

\* `flask assets convert-esbuild-metafile FILE [--merge]`, cli.py lines 243-270:
\* a decode error returns False; otherwise _dump_mapping_file opens the file
\* and dumps the mapping
ConvertCommand(merge) ==
    /\ writer.pc = "idle"
    /\ ret.op = "init"
    /\ conv' = [AppConversion(metafile) EXCEPT !.op = "convert"]
    /\ IF AppConversion(metafile).ok /\ ValidMode(OpenMode(merge))
       THEN OpenForWrite(AppConversion(metafile).mapping)
       ELSE UNCHANGED <<mapping_file, writer>>
    /\ ret' = [NoRet EXCEPT !.op = IF AppConversion(metafile).ok /\ ~ValidMode(OpenMode(merge))
                                   THEN "ValueError" ELSE "convert_esbuild_metafile",
                            !.args = IF merge THEN <<"--merge">> ELSE <<>>,
                            !.m = read_mapping(mapping_file)]
    /\ UNCHANGED <<configVars, heap, g, calls, metafile, obs, reloadVars>>

\* the command has ended
CommandReturn ==
    /\ ret.op \in {"convert_esbuild_metafile", "ValueError"}
    /\ writer.pc = "idle"
    /\ ret' = NoRet
    /\ UNCHANGED <<appVars, heap, g, calls>>

MergeConvert == \E merge \in BOOLEAN : ConvertCommand(merge)

NextMerge == SnapshotBundler \/ MergeConvert \/ DumpWrite \/ CommandReturn

SpecMerge == InitFile /\ [][NextMerge]_vars

\* the file-watch thread and a build-worker thread ping the same Reloader
RacePingStart == \E t \in Pingers : PingStart(t)
RacePingStep == \E t \in Pingers : PingStep(t)

NextRace == Subscribe \/ ReloadGet \/ RacePingStart \/ RacePingStep

SpecRace == InitReload /\ [][NextRace]_vars

\* ------------------------------------------------------- the dev command
MaxLines == 1
MaxBrowsers == 1

\* the build workers that dev starts with a callback: 1 reads the output of
\* esbuild, 2 that of tailwind
Esbuild == 1
Tailwind == 2

\* the text that matchline matches, and any other line
MatchLine(w) == IF w = Esbuild THEN "[watch] build finished" ELSE "Done in"

\* dev, cli.py lines 115-151: a worker with a reader thread exists for esbuild
\* when bundles are declared and for tailwind when it is configured and
\* livereload is on (without callback start_build_worker waits for the process)
HasWorker(w, livereload) ==
    IF w = Esbuild THEN bundles # <<>> ELSE tailwind # <<>> /\ livereload

\* dev in watch mode, lines 71-163, up to start_reloader_app or process.wait()
StartedDev(livereload) ==
    [livereload |-> livereload,
     main |-> IF livereload THEN "serving" ELSE "waiting",
     exit_event |-> FALSE,
     unlinked |-> FALSE,
     process |-> [w \in Pingers |-> IF HasWorker(w, livereload) THEN "running" ELSE "none"],
     pipe |-> [w \in Pingers |-> <<>>],
     thread |-> [w \in Pingers |-> IF HasWorker(w, livereload) THEN "test" ELSE "none"]]

devRest == <<configVars, requestVars, mapping_file, conv, writer, obs, subscribers, qlen, pinger>>

\* the process prints a line; esbuild has written its metafile before it
\* prints that the build is finished
WorkerOutput(w, line, doc) ==
    /\ dev.process[w] = "running"
    /\ Len(dev.pipe[w]) < MaxLines
    /\ dev' = [dev EXCEPT !.pipe[w] = Append(@, line)]
    /\ metafile' = IF w = Esbuild /\ line = MatchLine(w) THEN doc ELSE metafile
    /\ UNCHANGED devRest

\* task, lines 194-195: while not exit_event or not exit_event.is_set()
ThreadTest(w) ==
    /\ dev.thread[w] = "test"
    /\ dev' = [dev EXCEPT !.thread[w] = IF dev.exit_event THEN "ended" ELSE "readline"]
    /\ UNCHANGED <<devRest, metafile>>

\* what the thread does with the line it read, lines 198-199
AfterLineAlways(w, line) == "callback"

AfterLine(w, line) == IF line = MatchLine(w) THEN "callback" ELSE "test"

\* task, lines 196-199: readline() waits for a line while the process runs and
\* returns "" at the end of the output of a process that has ended
ThreadReadline(w) ==
    /\ dev.thread[w] = "readline"
    /\ dev.pipe[w] # <<>> \/ dev.process[w] = "terminated"
    /\ dev' = IF dev.pipe[w] # <<>>
              THEN [dev EXCEPT !.pipe[w] = Tail(@), !.thread[w] = AfterLine(w, Head(dev.pipe[w]))]
              ELSE [dev EXCEPT !.thread[w] = AfterLine(w, "")]
    /\ UNCHANGED <<devRest, metafile>>

\* on_esbuild_finished, lines 121-124: what follows the conversion
AfterConvertPing(ok) == IF ok THEN "dump" ELSE "ping"

AfterConvert(ok) == IF ok THEN "dump" ELSE "test"

\* the callback starts: on_esbuild_finished, lines 121-124, converts the
\* metafile (open() raises FileNotFoundError once dev has unlinked it) and
\* opens the mapping file; broker.ping is the callback of tailwind, line 146
ThreadCallback(w) ==
    /\ dev.thread[w] = "callback"
    /\ IF w = Tailwind
       THEN /\ dev' = [dev EXCEPT !.thread[w] = "ping"]
            /\ UNCHANGED <<conv, mapping_file, writer>>
       ELSE IF dev.unlinked
       THEN /\ dev' = [dev EXCEPT !.thread[w] = "ended"]
            /\ UNCHANGED <<conv, mapping_file, writer>>
       ELSE /\ writer.pc = "idle"
            /\ conv' = [AppConversion(metafile) EXCEPT !.op = "dev"]
            /\ dev' = [dev EXCEPT !.thread[w] = AfterConvert(AppConversion(metafile).ok)]
            /\ IF AppConversion(metafile).ok
               THEN OpenForWrite(AppConversion(metafile).mapping)
               ELSE UNCHANGED <<mapping_file, writer>>
    /\ UNCHANGED <<configVars, requestVars, metafile, obs, subscribers, qlen, pinger>>

\* _dump_mapping_file inside the callback: json.dump writes a chunk
ThreadDump(w) ==
    /\ dev.thread[w] = "dump"
    /\ DumpWrite

\* _convert_esbuild_metafile has returned True: `... and livereload`, line 123
ThreadDumped(w) ==
    /\ dev.thread[w] = "dump"
    /\ writer.pc = "idle"
    /\ dev' = [dev EXCEPT !.thread[w] = IF dev.livereload THEN "ping" ELSE "test"]
    /\ UNCHANGED <<devRest, metafile>>

\* broker.ping() in the reader thread
ThreadPingStart(w) ==
    /\ dev.thread[w] = "ping"
    /\ pinger[w].pc = "idle"
    /\ PingStart(w)

ThreadPingStep(w) ==
    /\ dev.thread[w] = "ping"
    /\ PingStep(w)

\* ping has returned, or raised: an exception ends the thread
ThreadPinged(w) ==
    /\ dev.thread[w] = "ping"
    /\ pinger[w].pc \in {"done", "raised"}
    /\ dev' = [dev EXCEPT !.thread[w] = IF pinger[w].pc = "raised" THEN "ended" ELSE "test"]
    /\ pinger' = [pinger EXCEPT ![w] = IdlePinger]
    /\ UNCHANGED <<configVars, requestVars, mapping_file, buildVars, subscribers, qlen>>

\* dev, lines 165-166: start_reloader_app has returned
ServerReturns ==
    /\ dev.main = "serving"
    /\ dev' = [dev EXCEPT !.main = "terminating", !.exit_event = TRUE]
    /\ UNCHANGED <<devRest, metafile>>

\* dev, lines 159-162 and 167-169: KeyboardInterrupt ends the wait of the
\* --no-livereload mode; the processes are terminated and waited for
TerminateProcesses ==
    /\ dev.main \in {"terminating", "waiting"}
    /\ dev' = [dev EXCEPT !.main = "cleanup",
                          !.process = [w \in Pingers |->
                                          IF dev.process[w] = "none" THEN "none" ELSE "terminated"]]
    /\ UNCHANGED <<devRest, metafile>>

\* dev, lines 171-176: the observer is stopped and the metafile unlinked; the
\* function returns
Cleanup ==
    /\ dev.main = "cleanup"
    /\ dev' = [dev EXCEPT !.main = "returned", !.unlinked = TRUE]
    /\ UNCHANGED <<devRest, metafile>>

DevThread(w) ==
    \/ ThreadTest(w) \/ ThreadReadline(w) \/ ThreadCallback(w) \/ ThreadDump(w)
    \/ ThreadDumped(w) \/ ThreadPingStart(w) \/ ThreadPingStep(w) \/ ThreadPinged(w)

\* the metafiles of the dev worker: the build of app.js, or a broken document
DevDocs == {d \in FileDocs : d.valid => d.outputs[1][1] = AppOut}

DevOutput == \E w \in Pingers, doc \in DevDocs :
                 \E line \in {MatchLine(w), "warning"} : WorkerOutput(w, line, doc)
DevTest == \E w \in Pingers : ThreadTest(w)
DevReadline == \E w \in Pingers : ThreadReadline(w)
DevCallbackStart == \E w \in Pingers : ThreadCallback(w)
DevDump == \E w \in Pingers : ThreadDump(w)
DevDumped == \E w \in Pingers : ThreadDumped(w)
DevPingStart == \E w \in Pingers : ThreadPingStart(w)
DevPingStep == \E w \in Pingers : ThreadPingStep(w)
DevPinged == \E w \in Pingers : ThreadPinged(w)

\* a browser opens the event stream of the live-reload server
DevSubscribe ==
    /\ dev.main = "serving"
    /\ Len(qlen) < MaxBrowsers
    /\ Subscribe

\* dev with esbuild and tailwind workers
InitDevAll ==
    /\ \E cfg \in {c \in Configs : c.bundles # <<>> /\ ~c.cdn_enabled} :
           InitApp(cfg, EmptyMapping)
    /\ IdleBuild
    /\ subscribers = <<>> /\ qlen = <<>> /\ pinger = [t \in Pingers |-> IdlePinger]
    /\ \E livereload \in BOOLEAN :
           /\ tailwind # <<>> => livereload
           /\ dev = StartedDev(livereload)

\* dev with the esbuild worker only
InitDev == InitDevAll /\ tailwind = <<>>

NextDev ==
    \/ DevOutput \/ DevTest \/ DevReadline \/ DevCallbackStart \/ DevDump \/ DevDumped
    \/ DevPingStart \/ DevPingStep \/ DevPinged
    \/ DevSubscribe \/ ServerReturns \/ TerminateProcesses \/ Cleanup

SpecDev == InitDev /\ [][NextDev]_vars

\* the scheduler lets every reader thread run
SpecDevFair == InitDevAll /\ [][NextDev]_vars /\ \A w \in Pingers : WF_vars(DevThread(w))

\* --------------------------------------------------- keys of the entrypoints
\* state.assets_folder: os.path.join(app.root_path, assets_folder)
AssetsFolder == abspath(<<"assets">>)

\* the static folders of the blueprints: one of a blueprint package, and one
\* that lies inside the assets folder
StaticFolders == {abspath(<<"bp", "/", "static">>), AssetsFolder \o <<"/", "bp">>}

\* blueprint_bundle(blueprint, assets), lines 270-277, outside of a request
BlueprintBundle(name, static_folder, assets) ==
    /\ Len(bundles) < MaxEntries
    /\ bundles' = Register(bundles, BundleDict(assets, <<"@">> \o name), static_folder, name)
    /\ ret' = [NoRet EXCEPT !.op = "blueprint_bundle", !.args = name, !.paths = assets]
    /\ UNCHANGED <<debug, assets_endpoint, cdn_enabled, import_map, include_arg,
                   include_inline_on_demand, tailwind, mapping, mapping_file,
                   buildVars, reloadVars, heap, g, calls>>

\* get_esbuild_command, lines 461-469: the input file of an entrypoint
EsbuildInput(e) == IF EntryIsAbs(e) THEN e.path ELSE join(AssetsFolder, e.path)

\* esbuild names the files of its metafile relative to the working directory
RelToCwd(path) == IF StartsWith(path, abspath(<<>>)) THEN Drop(path, Len(abspath(<<>>))) ELSE path

\* the metafile of a build of the declared entrypoints: one output record for
\* each entrypoint that is not a URL
RECURSIVE EsbuildOutputs(_)
EsbuildOutputs(entries) ==
    IF entries = <<>> THEN <<>>
    ELSE IF is_abs_url(Head(entries).path) THEN EsbuildOutputs(Tail(entries))
    ELSE << <<OutputRel \o <<"/">> \o Stamp(LastPiece(Head(entries).path, "/")),
              [hasEntry |-> TRUE, entryPoint |-> RelToCwd(EsbuildInput(Head(entries))),
               hasCss |-> FALSE, cssBundle |-> <<>>, imports |-> <<>>]>> >>
         \o EsbuildOutputs(Tail(entries))

\* esbuild builds what get_esbuild_command asks for and writes the metafile
EsbuildRuns ==
    /\ metafile' = [valid |-> TRUE,
                    inputs |-> [i \in 1..Len(EsbuildOutputs(AllEntries(bundles))) |->
                                   EsbuildOutputs(AllEntries(bundles))[i][2].entryPoint],
                    outputs |-> EsbuildOutputs(AllEntries(bundles))]
    /\ ret' = [NoRet EXCEPT !.op = "esbuild"]
    /\ UNCHANGED <<configVars, heap, g, calls, mapping_file, conv, writer, obs, reloadVars>>

KeysBundle == \E assets \in BundleArgs : Bundle(assets, MainBundle)
KeysBlueprint == \E static_folder \in StaticFolders, assets \in {<<LibJs>>, <<PageJs, LibJs>>} :
                     BlueprintBundle(<<"bp">>, static_folder, assets)

NextKeys == KeysBundle \/ KeysBlueprint \/ EsbuildRuns \/ ConvertApp

SpecKeys == InitQueue /\ [][NextKeys]_vars

\* rendering a queue that holds pre-split references
PairRefs ==
    { AppJs,
      <<"preload", " ">> \o IconFont,
      TupleRef(IconFont, "preload"),
      TupleRef(AppJs, "prefetch") }

PairsBefore == BeforeRequest(1)
\* include(p) for a string, include([p]) for a tuple
PairsInclude == \E p \in PairRefs : Include(1, p, 1)
PairsTags == Tags(1)

NextPairs == PairsBefore \/ PairsInclude \/ PairsTags

SpecPairs == InitRender /\ [][NextPairs]_vars

\* ------------------------------------------------------------------ claims
HintModifiers == {Str(<<"prefetch">>), Str(<<"preload">>), Str(<<"modulepreload">>)}

IsHintMeta(meta) == DictHas(meta, Key("modifier")) /\ DictGet(meta, Key("modifier")) \in HintModifiers

\* every (final URL, metadata) pair that a reference list resolves to, one per
\* Output, in resolution order
RECURSIVE Occurrences(_, _)
Occurrences(paths, m) ==
    IF paths = <<>> THEN <<>>
    ELSE LET outs == Lookup(m, ParsePath(Head(paths)))
             meta == ParseMeta(Head(paths))
         IN  [i \in 1..Len(outs) |-> <<OutUrl(outs[i], meta), OutMeta(outs[i], meta)>>]
             \o Occurrences(Tail(paths), m)

FirstOcc(occ, u) == CHOOSE j \in 1..Len(occ) : occ[j][1] = u /\ \A k \in 1..(j - 1) : occ[k][1] # u

\* C1: urls() returns every final URL exactly once, at the position of its
\* first occurrence and with the metadata of that first occurrence.
C1_FirstSeenMetadata ==
    ret.op = "urls_of" =>
        LET occ == Occurrences(ret.args, ret.m)
            val == ret.value
        IN  /\ {val[i][1] : i \in 1..Len(val)} = {occ[j][1] : j \in 1..Len(occ)}
            /\ \A i, j \in 1..Len(val) :
                   i < j => FirstOcc(occ, val[i][1]) < FirstOcc(occ, val[j][1])
            /\ \A i \in 1..Len(val) : val[i][2] = occ[FirstOcc(occ, val[i][1])][2]

\* C2: without explicit paths, urls() renders the inclusion queue in
\* descending priority order and keeps the insertion order of the entries
\* of equal priority.
C2_PriorityOrder ==
    ret.op \in {"urls", "tags"} =>
        LET q == Queue(ret.ctx)
            n == Len(q)
        IN  /\ Len(ret.paths) = n
            /\ \E perm \in [1..n -> 1..n] :
                   /\ \A i, j \in 1..n : i < j =>
                          \/ q[perm[i]][1] > q[perm[j]][1]
                          \/ q[perm[i]][1] = q[perm[j]][1] /\ perm[i] < perm[j]
                   /\ \A i \in 1..n : ret.paths[i] = q[perm[i]][2]

\* inclusions [(1,a),(3,b),(1,c)] were rendered as b, a, c
C2_Witness ==
    /\ ret.op = "urls"
    /\ Len(Queue(ret.ctx)) = 3
    /\ [i \in 1..3 |-> Queue(ret.ctx)[i][1]] = <<1, 3, 1>>
    /\ Queue(ret.ctx)[1][2] # Queue(ret.ctx)[3][2]
    /\ ret.paths = <<Queue(ret.ctx)[2][2], Queue(ret.ctx)[1][2], Queue(ret.ctx)[3][2]>>

\* C3: a reference whose parsed path is not a key of the mapping resolves to
\* exactly one Output, the literal path, and so to exactly one URL.
C3_UnmappedPassthrough ==
    ret.op = "urls_of" =>
        /\ \A i \in 1..Len(ret.args) :
               ~DictHas(ret.m, ParsePath(ret.args[i])) =>
                   /\ Len(ret.outs[i]) = 1
                   /\ ret.outs[i][1].url = ParsePath(ret.args[i])
                   /\ ~ret.outs[i][1].pair
        /\ (Len(ret.args) = 1 /\ ~DictHas(ret.m, ParsePath(ret.args[1]))) => Len(ret.value) = 1

\* a reference to a path that a non-empty mapping does not hold was resolved
C3_Witness ==
    /\ ret.op = "urls_of"
    /\ ret.m # <<>>
    /\ Len(ret.args) = 1
    /\ ~DictHas(ret.m, ParsePath(ret.args[1]))
    /\ ret.value = << <<url_for(assets_endpoint, ParsePath(ret.args[1])), <<>> >> >>

\* C5: an include() made while handling one request changes neither the
\* queue of any other request nor the application-level include list, and a
\* request that starts later gets nothing but the application-level entries.
C5_QueueIsolation ==
    [][/\ \A r \in Requests :
              (ret'.op = "include" /\ ret'.ctx = r) =>
                  /\ heap'[0] = heap[0]
                  /\ \A r2 \in Requests \ {r} :
                         Active(r2) => heap'[g'[r2].include_assets] = heap[g[r2].include_assets]
       /\ \A r \in Requests :
              (ret'.op = "before_request" /\ ret'.ctx = r) =>
                  Range(heap'[g'[r].include_assets])
                      \subseteq Range(heap[0]) \cup {<<1, OutputUrl \o <<"/">> \o tailwind>>}]_vars

\* a request has included an asset while another request was being handled
C5_Witness ==
    /\ ret.op = "include"
    /\ ret.ctx \in Requests
    /\ \E r2 \in Requests \ {ret.ctx} : Active(r2) /\ Queue(r2) # Queue(ret.ctx)

KindSpec(u, meta) ==
    IF IsStr(meta, "modifier", "prefetch") THEN "prefetch"
    ELSE IF IsStr(meta, "modifier", "preload") THEN "preload"
    ELSE IF IsStr(meta, "modifier", "modulepreload") THEN "modulepreload"
    ELSE IF IsStr(meta, "modifier", "import") THEN "module"
    ELSE IF EndsWith(u, <<".", "css">>) \/ IsStr(meta, "content_type", "style") THEN "stylesheet"
    ELSE "script"

IsCoreTag(t) == t.kind \notin {"importmap", "livereload"}

IsHintItem(item) == IsHintMeta(item[2])

IsPlainItem(item) == ~IsHintMeta(item[2])

Expected(items) == [i \in 1..Len(items) |-> <<KindSpec(items[i][1], items[i][2]), items[i][1]>>]

\* C9: tags() gives every resolved Output exactly one tag of the kind its
\* metadata and URL call for; the hints come first, and the hints and the
\* scripts/styles each keep the order of the resolved queue.
C9_TagClassification ==
    ret.op = "tags" =>
        LET core == SelectSeq(ret.value, IsCoreTag)
        IN  [i \in 1..Len(core) |-> <<core[i].kind, core[i].href>>]
                = Expected(SelectSeq(ret.items, IsHintItem))
                      \o Expected(SelectSeq(ret.items, IsPlainItem))

\* a stylesheet, a module script and a prefetch hint were rendered, the hint first
C9_Witness ==
    /\ ret.op = "tags"
    /\ \E i, j, k \in 1..Len(ret.value) :
           /\ ret.value[i].kind = "prefetch"
           /\ ret.value[j].kind = "module"
           /\ ret.value[k].kind = "stylesheet"
           /\ i < j /\ i < k

\* C10: a plain urls() call (no reference asks for a hint) returns no
\* prefetch, preload or modulepreload Output.
C10_HintsDropped ==
    (ret.op = "urls_of" /\ \A i \in 1..Len(ret.args) : MatchEnd(ret.args[i]) = 0) =>
        \A i \in 1..Len(ret.value) : ~IsHintMeta(ret.value[i][2])

IsStaticImport(i) == i.kind = "import-statement"

ExpectedPreload(i) == Pair(OutputUrl \o Drop(i.path, Len(OutputRel)), ModulePreload)

\* the Outputs that the claim gives one output record
ExpectedOutputs(output, info) ==
    LET u == OutputUrl \o Drop(output, Len(OutputRel))
        statics == SelectSeq(info.imports, IsStaticImport)
    IN  <<IF EndsWith(u, <<".", "js">>) THEN Pair(u, Import) ELSE Bare(u)>>
        \o (IF info.hasCss THEN <<Bare(OutputUrl \o Drop(info.cssBundle, Len(OutputRel)))>> ELSE <<>>)
        \o [i \in 1..Len(statics) |-> ExpectedPreload(statics[i])]

RECURSIVE ExpectedFor(_, _)
ExpectedFor(outputs, e) ==
    IF outputs = <<>> THEN <<>>
    ELSE (IF Head(outputs)[2].hasEntry /\ Head(outputs)[2].entryPoint = InputRel \o e
          THEN ExpectedOutputs(Head(outputs)[1], Head(outputs)[2]) ELSE <<>>)
         \o ExpectedFor(Tail(outputs), e)

\* C4: for every output record with a tracked entryPoint, both converters
\* append to the entrypoint's key the rewritten output URL (import-tagged when
\* .js), the cssBundle URL as a bare string, and one modulepreload Output per
\* static import in the order of the imports list, and nothing for the others.
C4_ConvertedOutputs ==
    (conv.op \in {"app", "builder"} /\ conv.ok) =>
        \A i \in 1..Len(AllEntries(bundles)) :
            LET e == AllEntries(bundles)[i].path
                expected == ExpectedFor(metafile.outputs, e)
            IN  IF expected = <<>> THEN ~DictHas(conv.mapping, e)
                ELSE DictHas(conv.mapping, e) /\ DictGet(conv.mapping, e) = expected

\* app.js was built to app-ABC.js with a CSS bundle, a static import and a
\* dynamic import, and converted
C4_Witness ==
    /\ conv.op \in {"app", "builder"}
    /\ \E i \in 1..Len(metafile.outputs) :
           /\ metafile.outputs[i][1] = AppOut
           /\ metafile.outputs[i][2].entryPoint = InputRel \o AppJs
           /\ metafile.outputs[i][2].imports =
                  <<[path |-> LazyOut, kind |-> "dynamic-import"],
                    [path |-> ChunkOut, kind |-> "import-statement"]>>
    /\ DictHas(conv.mapping, AppJs)
    /\ DictGet(conv.mapping, AppJs) =
           <<Pair(Dist(<<"app-ABC", ".", "js">>), Import),
             Bare(Dist(<<"app-ABC", ".", "css">>)),
             Pair(Dist(<<"chunk-XYZ", ".", "js">>), ModulePreload)>>

\* C6: a read of the mapping file during a rewrite returns the complete
\* previous mapping or the complete new mapping.
C6_NoPartialRead == obs.seen => obs.value \in {obs.prev, obs.next}

\* C7: a conversion of a metafile that is not valid JSON fails and leaves the
\* mapping file as it was, in the dev rebuild callbacks and in the build command.
C7_DecodeFailureKeepsMapping ==
    [][(conv' # conv /\ ~metafile'.valid) =>
           (~conv'.ok /\ mapping_file' = mapping_file /\ writer' = writer)]_vars

\* the dev callback met a broken metafile and the previous good mapping is intact
C7_Witness ==
    /\ conv.op \in {"dev", "build"}
    /\ ~conv.ok
    /\ ~metafile.valid
    /\ mapping_file = FileOf(BuiltMapping)

Count(s, x) == Cardinality({i \in 1..Len(s) : s[i] = x})

\* C8: a ping never waits: when it is done, every subscriber of its start
\* was tried once; the ones with room got exactly one message and stay
\* subscribed, the full ones got none and are off the list.
C8_PingDropsFull ==
    /\ [](\A t \in {1} :
            /\ pinger[t].pc # "raised"
            /\ pinger[t].pc = "loop" => ENABLED PingStep(t)
            /\ pinger[t].pc = "done" =>
                  \A q \in Range(pinger[t].start) :
                      /\ Count(pinger[t].put, q) + Count(pinger[t].full, q) = 1
                      /\ Count(pinger[t].full, q) = 1 <=> q \notin Range(subscribers))
    /\ [][\A q \in 1..Len(qlen) :
            /\ qlen'[q] <= MaxSize
            /\ (q \in Range(subscribers) /\ q \notin Range(subscribers')) => qlen[q] = MaxSize
            /\ Count(pinger'[1].put, q) > Count(pinger[1].put, q) =>
                  (qlen[q] < MaxSize /\ qlen'[q] = qlen[q] + 1)
            /\ (pinger[1].pc = "loop" /\ pinger'[1].i = pinger[1].i - 1
                   /\ subscribers[pinger[1].i] = q /\ qlen[q] < MaxSize) =>
                  qlen'[q] = qlen[q] + 1]_vars

\* a ping is done that delivered to one subscriber and dropped a full one
C8_Witness ==
    /\ pinger[1].pc = "done"
    /\ pinger[1].put # <<>>
    /\ pinger[1].full # <<>>
    /\ Len(subscribers) < Len(pinger[1].start)

\* C11: where the metadata parsed from a reference and the metadata of a
\* mapped Output define the same key, the Output's value is the resolved one;
\* a reference-level key keeps its value where the Output does not define it.
C11_OutputMetaWins ==
    (ret.op = "url" /\ Len(ret.value) = Len(ret.outs[1])) =>
        \A j \in 1..Len(ret.value) :
            LET out == ret.outs[1][j]
                resolved == ret.value[j][2]
            IN  /\ \A i \in 1..Len(out.meta) :
                       /\ DictHas(resolved, out.meta[i][1])
                       /\ DictGet(resolved, out.meta[i][1]) = out.meta[i][2]
                /\ \A i \in 1..Len(ret.meta) :
                       ~DictHas(out.meta, ret.meta[i][1]) =>
                           /\ DictHas(resolved, ret.meta[i][1])
                           /\ DictGet(resolved, ret.meta[i][1]) = ret.meta[i][2]
                /\ \A i \in 1..Len(resolved) :
                       \/ DictHas(out.meta, resolved[i][1])
                       \/ DictHas(ret.meta, resolved[i][1])
                       \/ resolved[i][1] = Key("crossorigin")

\* 'prefetch app.js' was resolved over the built mapping: the import-tagged
\* script stays an import, the bare stylesheet takes the reference's prefetch
C11_Witness ==
    /\ ret.op = "url"
    /\ ret.args = << <<"prefetch", " ">> \o AppJs >>
    /\ ret.m = BuiltMapping
    /\ Len(ret.value) = 3
    /\ ret.value[1][2] = Import
    /\ ret.value[2][2] = << <<Key("modifier"), Str(<<"prefetch">>)>> >>

\* the names that the fields of a reference's fragment define
FragmentNames(f) ==
    IF FirstIndex(f, "#") = 0 THEN {}
    ELSE LET fields == Split(Drop(f, FirstIndex(f, "#")), "&")
         IN  {Take(fields[i], FirstIndex(fields[i], "=") - 1) :
                  i \in {j \in 1..Len(fields) : FirstIndex(fields[j], "=") > 0}}

\* the type the extension table gives the file extension of a path
ExtensionType(path) ==
    LET i == LastIndex(path, ".")
    IN  IF i > 0 /\ Len(path) = i + 1 /\ DictHas(PRELOAD_AS_EXT_MAPPING, path[i + 1])
        THEN DictGet(PRELOAD_AS_EXT_MAPPING, path[i + 1])
        ELSE "fetch"

IsPreloadAs(f) ==
    /\ Len(f) >= 6
    /\ SubSeq(f, 1, 4) = <<"preload", " ", "as", " ">>
    /\ f[5] \in LowerWords
    /\ f[6] = " "

\* C12: 'preload as T path' parses to modifier=preload and content_type=T;
\* 'preload path' parses to modifier=preload with the content_type that the
\* extension table gives the parsed path's file extension, 'fetch' when the
\* table has none (fragments that set these two keys themselves aside).
C12_PreloadContentType ==
    (/\ ret.op = "url"
     /\ StartsWith(ret.args[1], <<"preload", " ">>)
     /\ FragmentNames(ret.args[1]) \cap {Key("modifier"), Key("content_type")} = {}) =>
        /\ IsStr(ret.meta, "modifier", "preload")
        /\ IF IsPreloadAs(ret.args[1])
           THEN IsStr(ret.meta, "content_type", ret.args[1][5])
           ELSE IsStr(ret.meta, "content_type", ExtensionType(ret.filename))

\* the modifier prefixes of the reference grammar
HasModifierPrefix(f) ==
    LET rest == IF StartsWith(f, <<"defer", " ">>) THEN Drop(f, 2) ELSE f
    IN  Len(rest) >= 2 /\ rest[1] \in Modifiers \cup {"preload"} /\ rest[2] = " "

\* a (path, metadata) pair: the keys of the metadata are distinct and every
\* value is a string or a list of strings
IsParsed(path, meta) ==
    /\ Len(path) >= 0
    /\ \A i, j \in 1..Len(meta) : meta[i][1] = meta[j][1] => i = j
    /\ \A i \in 1..Len(meta) : Len(meta[i][1]) >= 1 /\ meta[i][2][1] \in {"s", "l"}

\* C13 as stated: the parser returns a (path, metadata) pair for every string,
\* and a string without a modifier prefix is the path, whole, with empty
\* metadata.
C13_UnmatchedIsWholePath ==
    ret.op = "url" =>
        /\ IsParsed(ret.filename, ret.meta)
        /\ ~HasModifierPrefix(ret.args[1]) => (ret.filename = ret.args[1] /\ ret.meta = <<>>)

\* C13, amended: the parser returns a (path, metadata) pair for every string;
\* a string without a modifier prefix gives the path up to its first '#'
\* (the whole string when it has none) and no metadata other than the fields
\* of the fragment after that '#'.
C13_UnmatchedIsPathAndFragment ==
    ret.op = "url" =>
        /\ IsParsed(ret.filename, ret.meta)
        /\ ~HasModifierPrefix(ret.args[1]) =>
               /\ ret.filename = IF FirstIndex(ret.args[1], "#") = 0 THEN ret.args[1]
                                 ELSE Take(ret.args[1], FirstIndex(ret.args[1], "#") - 1)
               /\ \A i \in 1..Len(ret.meta) : ret.meta[i][1] \in FragmentNames(ret.args[1])
               /\ FirstIndex(ret.args[1], "#") = 0 => ret.meta = <<>>

\* 'app.js#x=a+b' was parsed to the path app.js with the fragment's field
C13_Witness ==
    /\ ret.op = "url"
    /\ ret.args[1] = AppJs \o <<"#", "x", "=", "a", "+", "b">>
    /\ ret.filename = AppJs
    /\ ret.meta = << <<Key("x"), <<"l", "a", " ", "b">>>> >>

\* C14: the fields of a fragment never replace the keys that the modifier
\* prefix set (modifier, content_type).
C14_FragmentKeepsModifier ==
    ret.op = "url" =>
        \A i \in 1..Len(ModifierMeta(ret.args[1])) :
            /\ DictHas(ret.meta, ModifierMeta(ret.args[1])[i][1])
            /\ DictGet(ret.meta, ModifierMeta(ret.args[1])[i][1]) = ModifierMeta(ret.args[1])[i][2]

\* C15: 'defer import path' parses to the path after the prefix, with
\* modifier=import.
C15_DeferPrefix ==
    (/\ ret.op = "url"
     /\ StartsWith(ret.args[1], <<"defer", " ", "import", " ">>)
     /\ FirstIndex(ret.args[1], "#") = 0) =>
        /\ ret.filename = Drop(ret.args[1], 4)
        /\ IsStr(ret.meta, "modifier", "import")

IsBundleName(name) == \E i \in 1..Len(bundles) : bundles[i][1] = name

\* the entrypoints of a registered bundle, in the order they were declared
BundleEntrypoints(name) ==
    LET b == bundles[CHOOSE i \in 1..Len(bundles) : bundles[i][1] = name][2]
    IN  [k \in 1..Len(b) |-> b[k].path]

\* C16: include(name, priority) appends to the current inclusion target, and
\* to nothing else, the single entry (priority, name) when name is not a
\* registered bundle, and one entry (priority, entrypoint) per entrypoint of
\* the bundle, in the bundle's order, when it is: also when name is a file name.
C16_IncludeUnknownOrBundle ==
    [][ret'.op = "include" =>
           LET t == TargetObj(ret'.ctx)
               name == ret'.args[1]
               priority == ret'.args[2]
           IN  /\ heap'[t] = heap[t] \o
                      (IF IsBundleName(name)
                       THEN [k \in 1..Len(BundleEntrypoints(name)) |->
                                <<priority, BundleEntrypoints(name)[k]>>]
                       ELSE << <<priority, name>> >>)
               /\ \A o \in DOMAIN heap : o # t => heap'[o] = heap[o]]_vars

\* app.js, the name of a file and of a bundle of two entrypoints, was included
\* in a request and expanded to the two entrypoints
C16_Witness ==
    /\ ret.op = "include"
    /\ ret.ctx \in Requests
    /\ ret.args[1] = AppJs
    /\ IsBundleName(AppJs)
    /\ Len(Queue(ret.ctx)) >= 2
    /\ SubSeq(Queue(ret.ctx), Len(Queue(ret.ctx)) - 1, Len(Queue(ret.ctx)))
           = << <<ret.args[2], AppJs>>, <<ret.args[2], AppCss>> >>

IsRendered(t) == t.kind # "KeyError"

\* C17: the import-map block is the first tag of the rendered output whenever
\* an import map is configured, and the live-reload snippet is the last.
C17_ImportMapFirst ==
    (ret.op = "tags" /\ \A i \in 1..Len(ret.value) : IsRendered(ret.value[i])) =>
        /\ import_map => \E i \in 1..Len(ret.value) : ret.value[i].kind = "importmap"
        /\ \A i \in 1..Len(ret.value) :
               /\ ret.value[i].kind = "importmap" => i = 1
               /\ ret.value[i].kind = "livereload" => i = Len(ret.value)

\* the HTML attributes that the claim gives a tag: the pass-through keys in
\* order, a true boolean as the bare name, a false one not at all
RECURSIVE ExpectedAttrs(_)
ExpectedAttrs(meta) ==
    IF meta = <<>> THEN <<>>
    ELSE LET k == Head(meta)[1]
             v == Head(meta)[2]
         IN  (IF k \in {Key("modifier"), Key("content_type")} THEN <<>>
              ELSE IF v[1] = "b" THEN (IF v[2] = "True" THEN <<" ">> \o k ELSE <<>>)
              ELSE <<" ">> \o k \o <<"=", "\"">> \o Tail(v) \o <<"\"">>)
             \o ExpectedAttrs(Tail(meta))

\* C18: every pass-through key of a resolved Output's metadata is an HTML
\* attribute of its tag; a boolean key is the bare attribute name when true
\* and is left out when false.
C18_BooleanAttributes ==
    ret.op = "tags" =>
        \A i \in 1..Len(ret.value) :
            (IsCoreTag(ret.value[i]) /\ IsRendered(ret.value[i])) =>
                /\ DictHas(ret.items, ret.value[i].href)
                /\ ret.value[i].attrs = ExpectedAttrs(DictGet(ret.items, ret.value[i].href))

\* the tailwind stylesheet reference that before_request includes
TailwindEntry == IF tailwind = <<>> THEN <<>> ELSE << <<1, OutputUrl \o <<"/">> \o tailwind>> >>

\* the paths that init_app's include list names: the names themselves or, for
\* a bundle name, the bundle's entrypoints
ListedPaths ==
    UNION {IF IsBundleName(include_arg.list[i]) THEN Range(BundleEntrypoints(include_arg.list[i]))
           ELSE {include_arg.list[i]} : i \in 1..Len(include_arg.list)}

\* what C19 says of the application-level list that init_app leaves
InitialIncludeList ==
    calls = 0 =>
        IF include_arg.given
        THEN \A i \in 1..Len(heap[0]) : heap[0][i][2] \in ListedPaths
        ELSE \A i \in 1..Len(bundles) :
                 \A e \in Range(BundleEntrypoints(bundles[i][1])) : <<1, e>> \in Range(heap[0])

\* the queue of a request in progress changes only by the request's own include()
OwnIncludesOnly ==
    \A r \in Requests :
        (Active(r) /\ heap'[g[r].include_assets] # heap[g[r].include_assets]) =>
            (ret'.op = "include" /\ ret'.ctx = r)

\* C19 as stated: the initial queue of every request is a copy of the
\* application-level include list, which holds every declared bundle's
\* entrypoints when no include list was given and only the listed references
\* when one was; a request gets anything else only by its own include().
C19_InitialQueueIsCopy ==
    /\ []InitialIncludeList
    /\ [][/\ OwnIncludesOnly
          /\ \A r \in Requests :
                 (ret'.op = "before_request" /\ ret'.ctx = r) =>
                     /\ g'[r].include_assets # 0
                     /\ heap'[g'[r].include_assets] = heap[0]]_vars

\* C19, amended: the initial queue of a request is a copy of the
\* application-level include list followed by the tailwind stylesheet reference
\* when tailwind is configured; the rest as stated.
C19_InitialQueueIsCopyAndTailwind ==
    /\ []InitialIncludeList
    /\ [][/\ OwnIncludesOnly
          /\ \A r \in Requests :
                 (ret'.op = "before_request" /\ ret'.ctx = r) =>
                     /\ g'[r].include_assets # 0
                     /\ heap'[g'[r].include_assets] = heap[0] \o TailwindEntry]_vars

\* with include=["base.js"] and tailwind configured, a request has started
\* with base.js and the tailwind stylesheet, and without the declared page.js
C19_Witness ==
    /\ ret.op = "before_request"
    /\ include_arg = [given |-> TRUE, list |-> <<BaseJs>>]
    /\ IsBundleName(PageJs)
    /\ tailwind # <<>>
    /\ heap[0] = << <<1, BaseJs>> >>
    /\ Queue(ret.ctx) = << <<1, BaseJs>>, <<1, OutputUrl \o <<"/">> \o tailwind>> >>

\* C20: every key of the converted mapping is a declared entrypoint: an output
\* record whose entryPoint is not declared adds no key and no Output.
C20_UntrackedIgnored ==
    (conv.op \in {"app", "builder"} /\ conv.ok) =>
        \A i \in 1..Len(conv.mapping) :
            \E j \in 1..Len(AllEntries(bundles)) : AllEntries(bundles)[j].path = conv.mapping[i][1]

\* C21: after any sequence of bundle registrations and template compilations
\* (the same template may be compiled again), the entrypoint paths of each
\* bundle are pairwise distinct.
C21_UniqueEntrypoints ==
    \A b \in 1..Len(bundles) :
        \A i, j \in 1..Len(bundles[b][2]) :
            i # j => bundles[b][2][i].path # bundles[b][2][j].path

\* C28: filter_stream converts every inline block: after a compilation that
\* did not raise, no data token of the filtered stream still holds the open
\* tag of a '<script bundle>' or '<style bundle>' block.
C28_EveryBlockExtracted ==
    ret.op = "compile" =>
        \A i \in 1..Len(ret.value) :
            ret.value[i].type = "data" =>
                Search(OpenTags(InlineScriptExtension) \cup OpenTags(InlineStyleExtension),
                       ret.value[i].value) = 0

\* C22: two resolutions of the same reference in one request give the same
\* Outputs, whatever happened to the mapping file between them: when url()
\* returns in a request right after an earlier url() of that request for the
\* same reference, with only writes of the mapping file in between, its
\* Outputs are the earlier ones, and they come from the request's snapshot.
C22_RequestSnapshot ==
    [][ (/\ ret.op = "url" /\ ret'.op = "url"
         /\ ret.ctx # 0 /\ ret'.ctx = ret.ctx
         /\ ret'.args = ret.args)
        => (/\ ret'.outs = ret.outs
            /\ ret'.m = g[ret.ctx].assets_map
            /\ g'[ret.ctx].assets_map = g[ret.ctx].assets_map) ]_vars

\* the request resolved app.js from its snapshot although the file on disk,
\* rewritten by the dev worker since, now maps it to something else
C22_Witness ==
    /\ ret.op = "url" /\ ret.ctx = 1 /\ ret.args = <<AppJs>>
    /\ Active(1) /\ g[1].has_map /\ ret.m = g[1].assets_map
    /\ debug /\ conv.op = "dev" /\ writer.pc = "idle"
    /\ read_mapping(mapping_file) # g[1].assets_map
    /\ ret.outs # <<Lookup(read_mapping(mapping_file), ret.filename)>>

\* C23: when the convert command has converted a metafile and ended, the
\* mapping file holds, with the merge option, every entry of the mapping file
\* as it was before the command, updated with the entries of the converted
\* mapping (which win on equal keys); without the option it holds the
\* converted mapping only.
C23_MergeOption ==
    (/\ ret.op \in {"convert_esbuild_metafile", "ValueError"}
     /\ conv.op = "convert" /\ conv.ok
     /\ writer.pc = "idle")
    => read_mapping(mapping_file) =
           IF ret.args = <<"--merge">> THEN DictUpdate(ret.m, conv.mapping) ELSE conv.mapping

\* the declared entrypoints that are not absolute and that the conversion mapped
MappedEntrypoints ==
    {AllEntries(bundles)[i].path :
        i \in {j \in 1..Len(AllEntries(bundles)) :
                  /\ ~EntryIsAbs(AllEntries(bundles)[j])
                  /\ ~is_abs_url(AllEntries(bundles)[j].path)
                  /\ DictHas(conv.mapping, AllEntries(bundles)[j].path)}}

\* C24: the inputs a conversion returns are exactly the source files of the
\* declared, non-absolute, non-external entrypoints that it mapped, and the
\* copy step of the build command leaves the mapping entries of these files
\* as the conversion made them.
C24_InputsConsumed ==
    (conv.op # "none" /\ conv.ok) =>
        /\ Range(conv.inputs) = MappedEntrypoints
        /\ (conv.op = "build" /\ writer.pc = "writing") =>
               \A f \in Range(conv.inputs) :
                   IF DictHas(conv.mapping, f)
                   THEN DictHas(writer.m, f) /\ DictGet(writer.m, f) = DictGet(conv.mapping, f)
                   ELSE ~DictHas(writer.m, f)

\* C25: with ping running concurrently with subscribe and with another ping,
\* no ping raises an index error, a ping that has ended has tried every
\* subscriber it started with, and a subscriber is only removed when its
\* queue is full.
C25_ConcurrentPing ==
    /\ [](\A t \in Pingers :
            /\ pinger[t].pc # "raised"
            /\ pinger[t].pc = "done" =>
                   Range(pinger[t].start) \subseteq
                       (Range(pinger[t].put) \cup Range(pinger[t].full)))
    /\ [][\A q \in Range(subscribers) \ Range(subscribers') : qlen[q] >= MaxSize]_vars

\* C26: once the dev command has shut down and returned (the live-reload
\* server returned, or the wait on the processes was interrupted), every
\* reader thread of a build worker eventually terminates.
C26_WorkersTerminate ==
    (dev.main = "returned") ~> (\A w \in Pingers : dev.thread[w] \in {"none", "ended"})

\* C27: while the reader thread of esbuild is inside broker.ping(), the last
\* conversion of the metafile succeeded and the mapping file holds, completely
\* written, the mapping converted from the document that the callback read;
\* after a conversion that failed to decode the thread does not ping.
C27_PingAfterRewrite ==
    dev.thread[Esbuild] = "ping" =>
        /\ dev.livereload
        /\ conv.op = "dev" /\ conv.ok
        /\ writer.pc = "idle"
        /\ JsonDecodes(mapping_file)
        /\ read_mapping(mapping_file) = conv.mapping

\* a rebuild of app.js was converted and dumped, and the ping put the
\* notification into the queue of the browser
C27_Witness ==
    /\ dev.thread[Esbuild] = "ping"
    /\ pinger[Esbuild].pc = "done" /\ pinger[Esbuild].put # <<>>
    /\ conv.op = "dev" /\ conv.mapping # <<>>
    /\ read_mapping(mapping_file) = conv.mapping

\* the references that include(name) puts in an empty queue
IncludedRefs(name) == QueuePaths(IncludeLoop(<<name>>, 1, <<>>))

\* C29: after a conversion of the metafile of a build of the declared
\* entrypoints, every reference that include(bundle) queues for an entrypoint
\* that is not a URL is a key of the converted mapping: resolving it does
\* not fall back to the reference itself.
C29_IncludeKeyIsMappingKey ==
    (conv.op = "app" /\ conv.ok /\ conv = AppConversion(metafile)
     /\ ret.op = "esbuild" /\ metafile.outputs = EsbuildOutputs(AllEntries(bundles))) =>
        \A b \in 1..Len(bundles) :
            \A i \in 1..Len(IncludedRefs(bundles[b][1])) :
                ~is_abs_url(IncludedRefs(bundles[b][1])[i]) =>
                    /\ DictHas(conv.mapping, IncludedRefs(bundles[b][1])[i])
                    /\ Lookup(conv.mapping, IncludedRefs(bundles[b][1])[i])
                           # <<Bare(IncludedRefs(bundles[b][1])[i])>>

\* C30: tags() completes for every queue of references that the parser
\* accepts, pre-split (path, modifier) pairs included: no KeyError for a
\* missing content_type, and every preload link has an 'as' type.
C30_TagsCompletes ==
    ret.op = "tags" =>
        \A i \in 1..Len(ret.value) :
            /\ ret.value[i].kind # "KeyError"
            /\ ret.value[i].kind = "preload" => ret.value[i].as # <<>>

====
